---- MODULE Spec2Model ----
(***************************************************************************)
(* A model of the neatchi genome engine: the in-place node / link lists of *)
(* the CPPNs of a population, the structural mutations of reproduction.py, *)
(* the index-based list primitives of population.py and the compatibility  *)
(* metric of selection.py.                                                 *)
(*                                                                         *)
(* Node positions and link indices are 0-based, as in the source; a list   *)
(* is a TLA+ sequence, so position n of the source is element n + 1.       *)
(***************************************************************************)
EXTENDS Integers, Sequences, FiniteSets, TLC

\* ---------------------------------------------------------------- sizes

\* data_types.py: capacity of a genome's node list and of its link list
\* (30 in the source; scaled down here).
MAX_NETWORK_SIZE == 6

\* Values the shared innovation counter may reach before the model stops
\* handing out new links.
MaxInnov == 7

\* Number of distinct values ti.random() is drawn from when a weight is
\* randomised; weights are fixed-point, ONE stands for 1.0.
NumWeights == 1

\* Largest population the model builds, and the number of mutate_one calls
\* a run makes in a population of more than one individual.
MaxIndividuals == 2
MaxMutations == 3

\* network_shape of the population.
num_inputs == 1
num_outputs == 1

is_recurrent == FALSE

\* activation_funcs.py: size of the ActivationFuncs table (scaled down).
NUM_ACTIVATION_FUNCS == 1

\* data_types.py: NodeKinds.
INPUT == 0
HIDDEN == 1
OUTPUT == 2

\* reproduction.py: Matches.NONE.
NONE == -1

RandomWeights == 0 .. (NumWeights - 1)
ONE == NumWeights
ActFuncs == 0 .. (NUM_ACTIVATION_FUNCS - 1)

Max(a, b) == IF a > b THEN a ELSE b
Min(a, b) == IF a < b THEN a ELSE b

\* ---------------------------------------------------------------- state

VARIABLES
    num_individuals,     \* Neat.__init__: the size of both populations
    nodes,               \* curr_pop.nodes: individual -> list of Node
    links,               \* curr_pop.links: individual -> list of Link
    innovation_counter,  \* the shared innovation counter
    selections,          \* Matches.selections: child -> <<parent, mate>>
    mate_links,          \* Matches.mate_links: <<parent, link>> -> mate link
    pc,                  \* "new", "init" (inside random_init) or "idle"
    applied,             \* random_init: lane -> mutations applied so far
    mutations,           \* mutate_one calls made so far
    err                  \* "ok", or the undefined behaviour the run has hit:
                         \* "div0", "oob" (a write) or "oob_read"

\* The bookkeeping the list primitives of population.py are checked against:
\* the nodes and links that have been put into genome 0 and not taken out
\* of it, in list order.  A node is known by the uid it was inserted
\* under, a link by its innovation number and the uids of its two ends.
VARIABLES
    ref_nodes,           \* list of uid
    ref_links,           \* list of [innov, from_uid, to_uid]
    next_uid             \* the uid of the next node to insert

\* The input and the output of the compatibility analysis.
VARIABLES
    comp_links,          \* individual -> list of Link (link_lens entries)
    comp_matrix          \* Matchmaker.comp_matrix: <<p, m>> -> result

\* The fields of the Matchmaker that selection reads and writes.
VARIABLES
    fitness,             \* Matchmaker.fitness: individual -> fitness
    num_compatible,      \* Matchmaker.num_compatible: individual -> count
    matches              \* Matchmaker.matches: child -> <<parent, mate>>

\* The population that is not the current one, and the kernel at work.
VARIABLES
    next_nodes,          \* next_pop.nodes: individual -> list of Node
    next_links,          \* next_pop.links: individual -> list of Link
    lanes,               \* lanes of the propagate kernel yet to run
    generations          \* calls of Neat.propagate so far

\* The double buffer of NeatPopulation.  An entry of a node or link array
\* is known by a number: 0 for the value of a fresh field.
VARIABLES
    buffer_index,        \* the index of the current buffer
    buf_nodes,           \* NeatPopulation.nodes: buffer -> individual -> slots
    buf_links,           \* NeatPopulation.links: buffer -> individual -> slots
    node_lens,           \* buffer -> individual -> node count
    link_lens            \* buffer -> individual -> link count

\* A kernel whose lanes call add_link, and the parameters of one node and
\* one link as the mutations change them.
VARIABLES
    lane_innov,          \* lane -> the id its atomic_add returned, if the
                         \* link is still to be stored
    params               \* [bias, gain, weight], fixed-point numbers

population_vars == <<num_individuals, nodes, links, innovation_counter, err>>
reproduction_vars == <<selections, mate_links, pc, applied, mutations>>
storage_vars == <<ref_nodes, ref_links, next_uid>>
compat_vars == <<comp_links, comp_matrix>>
select_vars == <<fitness, num_compatible, matches>>
buffer_vars == <<next_nodes, next_links, lanes, generations>>
double_vars == <<buffer_index, buf_nodes, buf_links, node_lens, link_lens>>
lane_vars == <<lane_innov>>
param_vars == <<params>>

vars == <<population_vars, reproduction_vars, storage_vars, compat_vars,
          select_vars, buffer_vars, double_vars, lane_vars, param_vars>>

Individuals == 0 .. (num_individuals - 1)
LinkSlots == 0 .. (MAX_NETWORK_SIZE - 1)

\* ---------------------------------------------------------------- data

Node(kind, act_func) ==
    [kind |-> kind, act_func |-> act_func, deleted |-> FALSE]

Link(from_node, to_node, weight) ==
    [from_node |-> from_node, to_node |-> to_node, weight |-> weight,
     innov |-> NONE, deleted |-> FALSE]

\* One genome together with the shared state its operators thread through:
\* the innovation counter and the error status of the run.
Genome(ns, ls, ic, e) ==
    [nodes |-> ns, links |-> ls, ic |-> ic, err |-> e]

\* ------------------------------------------------------- reproduction.py

\* The values an integer of undefined value may take in the model: every
\* node position and the two values around them.
Garbage == (-1) .. MAX_NETWORK_SIZE

\* rand_range: ti.random(dtype=int) % (max_val - min_val) + min_val, with
\* Python's sign convention for %.  A zero divisor is undefined behaviour:
\* the value is arbitrary (the trap is DivZero below).
rand_range(min_val, max_val) ==
    IF max_val > min_val THEN min_val .. (max_val - 1)
    ELSE IF max_val < min_val THEN (max_val + 1) .. min_val
    ELSE Garbage

\* The other outcome of a zero divisor: the kernel traps.
DivZero(st) == [st EXCEPT !.err = "div0"]

make_random_node(node_type) ==
    { Node(node_type, a) : a \in ActFuncs }

\* add_link handing out the counter's value without advancing it; C5 is
\* to fail for it.
add_link_same_innov(st, link) ==
    [st EXCEPT !.links = Append(@, [link EXCEPT !.innov = st.ic]),
               !.err = IF Len(st.links) >= MAX_NETWORK_SIZE /\ @ = "ok"
                       THEN "oob" ELSE @]

\* new_link of the population: append the link under a fresh innovation
\* number.  A write at an index >= MAX_NETWORK_SIZE is out of bounds.
add_link(st, link) ==
    [st EXCEPT !.links = Append(@, [link EXCEPT !.innov = st.ic]),
               !.ic = @ + 1,
               !.err = IF Len(st.links) >= MAX_NETWORK_SIZE /\ @ = "ok"
                       THEN "oob" ELSE @]

has_room_for(st, n_nodes, n_links) ==
    /\ Len(st.nodes) + n_nodes < MAX_NETWORK_SIZE
    /\ Len(st.nodes) + n_links < MAX_NETWORK_SIZE

add_random_link(st) ==
    LET num_nodes == Len(st.nodes) IN
    IF is_recurrent
    THEN { add_link(st, Link(f, t, w)) :
             f \in rand_range(0, num_nodes),
             t \in rand_range(num_inputs, num_nodes),
             w \in RandomWeights }
    ELSE UNION { { add_link(st, Link(f, t, w)) :
                     t \in rand_range(Max(f + 1, num_inputs), num_nodes),
                     w \in RandomWeights } :
                 f \in rand_range(0, num_nodes - 1) }

\* The shifting loop of insert_node, from position n2 on; shift_end is the
\* last position the loop visited.
RECURSIVE insert_shift(_, _, _, _, _)
insert_shift(ns, n2, node, num_nodes, shift_end) ==
    IF n2 < 0 \/ n2 > num_nodes
    THEN [nodes |-> ns, shift_end |-> shift_end]
    ELSE IF n2 = num_nodes
    THEN [nodes |-> Append(ns, node), shift_end |-> n2]
    ELSE IF ns[n2 + 1].deleted
    THEN [nodes |-> [ns EXCEPT ![n2 + 1] = node], shift_end |-> n2]
    ELSE insert_shift([ns EXCEPT ![n2 + 1] = node], n2 + 1, ns[n2 + 1],
                      num_nodes, n2)

insert_node(st, n, node) ==
    LET r == insert_shift(st.nodes, n, node, Len(st.nodes), n)
        shift_begin == n
        shift_end == r.shift_end
        Moved(x) == IF x >= shift_begin /\ x <= shift_end THEN x + 1 ELSE x
    IN  [st EXCEPT !.nodes = r.nodes,
                   !.links = [l \in DOMAIN st.links |->
                                [st.links[l] EXCEPT
                                   !.from_node = Moved(@),
                                   !.to_node = Moved(@)]]]

\* add_random_node once the link l to split is chosen, with the new node
\* going to position n.
split_link(st, l, n, node) ==
    LET s1 == IF is_recurrent
              THEN [st EXCEPT !.nodes = Append(@, node)]
              ELSE insert_node(st, n, node)
        s2 == [s1 EXCEPT !.links[l + 1].deleted = TRUE]
        old_link == s2.links[l + 1]
        s3 == add_link(s2, Link(old_link.from_node, n, old_link.weight))
    IN  add_link(s3, Link(n, old_link.to_node, ONE))

add_random_node(st) ==
    LET S0 == IF Len(st.links) = 0 THEN add_random_link(st) ELSE {st}
        Split(s, l) ==
            LET old_link == s.links[l + 1]
                lo == Max(old_link.from_node, num_inputs - 1)
                hi == Min(old_link.to_node, Len(s.nodes) - num_outputs)
            IN  IF is_recurrent
                THEN { split_link(s, l, Len(s.nodes), node) :
                         node \in make_random_node(HIDDEN) }
                ELSE { split_link(s, l, r + 1, node) :
                         r \in rand_range(lo, hi),
                         node \in make_random_node(HIDDEN) }
                     \cup (IF lo = hi THEN {DivZero(s)} ELSE {})
    IN  UNION { UNION { Split(s, l) : l \in rand_range(0, Len(s.links)) } :
                s \in S0 }

\* mutate_one with mutation_kind already drawn.
mutate_kind(st, mutation_kind) ==
    LET num_nodes == Len(st.nodes)
        num_links == Len(st.links)
        num_hidden == num_nodes - num_inputs - num_outputs
    IN
    IF mutation_kind = 0 /\ has_room_for(st, 1, 2)
    THEN add_random_node(st)
    ELSE IF mutation_kind = 1
    THEN IF num_hidden > 0
         THEN { [st EXCEPT
                   !.nodes[n + 1].deleted = TRUE,
                   !.links = [l \in DOMAIN st.links |->
                                IF st.links[l].from_node = n
                                   \/ st.links[l].to_node = n
                                THEN [st.links[l] EXCEPT !.deleted = TRUE]
                                ELSE st.links[l]]] :
                n \in rand_range(num_inputs, num_inputs + num_hidden) }
         ELSE {st}
    ELSE IF mutation_kind = 2
    THEN { [st EXCEPT !.nodes[n + 1].act_func = a] :
             n \in rand_range(0, num_nodes), a \in ActFuncs }
    ELSE IF mutation_kind = 3
    THEN {st}   \* bias, which is not part of the structural state
    ELSE IF mutation_kind = 5 /\ has_room_for(st, 0, 1)
    THEN add_random_link(st)
    ELSE IF mutation_kind = 6 /\ num_links > 0
    THEN { [st EXCEPT !.links[l + 1].deleted = TRUE] :
             l \in rand_range(0, num_links) }
    ELSE IF mutation_kind = 7
    THEN IF num_links > 0
         THEN { [st EXCEPT !.links[l + 1].weight = w] :
                  l \in rand_range(0, num_links), w \in RandomWeights }
         ELSE add_random_link(st)
    ELSE {st}

mutate_one(st) ==
    UNION { mutate_kind(st, k) : k \in rand_range(0, 8) }

\* Matches.update_mate_links for one child with parent p and mate m: the
\* entries <<p, pl>> the child writes, as a function from pl to the values
\* written.
child_mate_links(p, m) ==
    LET Written(pl) ==
            { ml \in 0 .. ((IF m = NONE THEN 0 ELSE Len(links[m])) - 1) :
                /\ links[p][pl + 1].deleted
                /\ ~links[m][ml + 1].deleted
                /\ links[p][pl + 1].innov = links[m][ml + 1].innov }
    IN  [pl \in { x \in 0 .. (Len(links[p]) - 1) : Written(x) # {} } |->
           Written(pl)]

\* The functions that differ from f in the entries keys, each of which
\* holds one of the values choices gives for it.
RECURSIVE fill_entries(_, _, _)
fill_entries(f, keys, choices) ==
    IF keys = {} THEN {f}
    ELSE LET k == CHOOSE x \in keys : TRUE IN
         UNION { fill_entries([f EXCEPT ![k] = v], keys \ {k}, choices) :
                 v \in choices[k] }

\* The match records Neat.propagate may be handed: a parent and a mate, or
\* a parent and NONE, for every child.
Selections == [Individuals -> Individuals \X (Individuals \cup {NONE})]

\* The match records that name a mate for every child.  Where no read goes
\* outside the population, a record (p, NONE) has the children of the
\* record (p, p): should_crossover finds no aligned link and clone runs.
\* Propagate draws (p, p) for it.
MatedSelections == [Individuals -> Individuals \X Individuals]

\* update_mate_links reads pop.links[m] for every deleted link of the
\* parent; with m = NONE that is a read outside the population.
OutOfBoundsRead(sel) ==
    \E i \in Individuals :
        /\ sel[i][2] = NONE
        /\ \E l \in 1 .. Len(links[sel[i][1]]) : links[sel[i][1]][l].deleted

\* Matches.update: mate_links is filled with NONE, then every child's lane
\* writes its entries; where several lanes write one entry, any of them
\* may be the last.
update_mate_links(sel) ==
    LET Candidates(k) ==
            UNION { IF sel[i][1] = k[1]
                       /\ k[2] \in DOMAIN child_mate_links(k[1], sel[i][2])
                    THEN child_mate_links(k[1], sel[i][2])[k[2]]
                    ELSE {} : i \in Individuals }
        Written == { k \in Individuals \X LinkSlots : Candidates(k) # {} }
    IN  fill_entries([k \in Individuals \X LinkSlots |-> NONE], Written,
                     [k \in Written |-> Candidates(k)])

\* Matches.is_compatible, over the parent's whole link list; mls is
\* mate_links.
RECURSIVE compat_scan(_, _, _, _, _)
compat_scan(p, m, mls, pl, acc) ==
    IF pl >= Len(links[p]) THEN acc
    ELSE LET ml == mls[<<p, pl>>] IN
         IF pl # NONE /\ ml # NONE
         THEN LET d == links[p][pl + 1].weight - links[m][ml + 1].weight IN
              compat_scan(p, m, mls, pl + 1,
                  [acc EXCEPT !.num_total = @ + 1,
                              !.weight_delta = @ + (IF d < 0 THEN -d ELSE d)])
         ELSE IF pl # NONE \/ ml # NONE
         THEN compat_scan(p, m, mls, pl + 1,
                  [acc EXCEPT !.num_total = @ + 1, !.num_disjoint = @ + 1])
         ELSE compat_scan(p, m, mls, pl + 1, acc)

\* DISJOINT_COEFF * num_disjoint / num_total + WEIGHT_COEFF * weight_delta
\* < COMPATIBILITY_THRESHOLD with all three constants 1.0 and weights in
\* units of 1 / ONE; 0 / 0 is NaN, which is below nothing.
is_compatible(p, m, mls) ==
    LET acc == compat_scan(p, m, mls, 0,
                   [num_disjoint |-> 0, num_total |-> 0, weight_delta |-> 0])
    IN  /\ acc.num_total > 0
        /\ acc.num_disjoint * ONE + acc.weight_delta * acc.num_total
              < acc.num_total * ONE

\* should_crossover; coin is ti.random() < CROSSOVER_RATE.
should_crossover(p, m, mls, coin) ==
    IF p # m /\ coin THEN is_compatible(p, m, mls) ELSE FALSE

\* The parent links whose coin crossover may flip: those with an entry in
\* mate_links.
Aligned(p, mls) ==
    { pl \in 0 .. (Len(links[p]) - 1) : mls[<<p, pl>>] # NONE }

\* The link loop of crossover without the test that skips the parent's
\* deleted links; C11 is to fail for it.
RECURSIVE crossover_links_deleted(_, _, _, _, _, _)
crossover_links_deleted(p, m, mls, pl, flips, out) ==
    IF pl >= Len(links[p]) THEN out
    ELSE LET ml == mls[<<p, pl>>] IN
         IF ml # NONE /\ ~links[m][ml + 1].deleted /\ flips[pl]
         THEN crossover_links_deleted(p, m, mls, pl + 1, flips,
                                      Append(out, links[m][ml + 1]))
         ELSE crossover_links_deleted(p, m, mls, pl + 1, flips,
                                      Append(out, links[p][pl + 1]))

\* The link loop of crossover from parent link pl on; out is the child's
\* link list so far, flips[pl] the coin ti.random(dtype=int) % 2 of link pl.
RECURSIVE crossover_links(_, _, _, _, _, _)
crossover_links(p, m, mls, pl, flips, out) ==
    IF pl >= Len(links[p]) THEN out
    ELSE LET p_link == links[p][pl + 1]
             ml == mls[<<p, pl>>]
         IN  IF p_link.deleted
             THEN crossover_links(p, m, mls, pl + 1, flips, out)
             ELSE IF ml # NONE /\ ~links[m][ml + 1].deleted /\ flips[pl]
             THEN crossover_links(p, m, mls, pl + 1, flips,
                                  Append(out, links[m][ml + 1]))
             ELSE crossover_links(p, m, mls, pl + 1, flips,
                                  Append(out, p_link))

\* crossover copying the mate's nodes; C12 is to fail for it.
crossover_mate_nodes(p, m, mls, flips) ==
    [nodes |-> nodes[m],
     links |-> crossover_links(p, m, mls, 0, flips, <<>>)]

\* crossover and clone: the node list and the link list of the child.
crossover(p, m, mls, flips) ==
    [nodes |-> nodes[p],
     links |-> crossover_links(p, m, mls, 0, flips, <<>>)]

clone(p) ==
    [nodes |-> nodes[p],
     links |-> SelectSeq(links[p], LAMBDA l : ~l.deleted)]

\* One lane of the propagate kernel: the child of parent p and mate m is
\* written to next_pop by crossover or clone, and then maybe mutated.  sh
\* holds the innovation counter, the error status and the mutation count
\* the lane starts from.
propagate_lane(p, m, mls, sh, may_mutate) ==
    LET Children ==
            { IF should_crossover(p, m, mls, coin)
              THEN crossover(p, m, mls, flips) ELSE clone(p) :
                coin \in BOOLEAN, flips \in [Aligned(p, mls) -> BOOLEAN] }
        Plain(c) ==
            [g |-> Genome(c.nodes, c.links, sh.ic, sh.err),
             mutations |-> sh.mutations]
        Mutated(c) ==
            { [g |-> s, mutations |-> sh.mutations + 1] :
                s \in mutate_one(Genome(c.nodes, c.links, sh.ic, sh.err)) }
    IN  UNION { {Plain(c)} \cup (IF may_mutate THEN Mutated(c) ELSE {}) :
                c \in Children }

\* ---------------------------------------------------------------- actions

\* The model stops once the run has trapped or written out of bounds.
Running == err = "ok"

\* A population of one is explored without a limit on its mutations, a
\* larger one for MaxMutations mutations.
MayMutate(count) == num_individuals = 1 \/ count < MaxMutations
Count(count) == IF num_individuals = 1 THEN 0 ELSE count

\* The orders in which the lanes of a kernel may take effect.
Orders ==
    { o \in [1 .. num_individuals -> Individuals] :
        \A a, b \in 1 .. num_individuals : a # b => o[a] # o[b] }

\* The propagate kernel, its lanes taking effect in the given order; acc
\* is next_pop and the shared state so far.
RECURSIVE propagate_kernel(_, _, _, _)
propagate_kernel(order, sel, mls, acc) ==
    IF order = <<>> \/ acc.err # "ok" THEN {acc}
    ELSE LET i == Head(order)
             sh == [ic |-> acc.ic, err |-> acc.err,
                    mutations |-> acc.mutations]
         IN  UNION { propagate_kernel(Tail(order), sel, mls,
                         [nodes |-> [acc.nodes EXCEPT ![i] = r.g.nodes],
                          links |-> [acc.links EXCEPT ![i] = r.g.links],
                          ic |-> r.g.ic, err |-> r.g.err,
                          mutations |-> Count(r.mutations)]) :
                     r \in propagate_lane(sel[i][1], sel[i][2], mls, sh,
                                          MayMutate(acc.mutations)) }

\* No list primitive has been called, no compatibility has been computed.
StorageIdle ==
    /\ ref_nodes = <<>>
    /\ ref_links = <<>>
    /\ next_uid = 0

CompatIdle ==
    /\ comp_links = <<>>
    /\ comp_matrix = <<>>

\* No kernel of add_link calls is at work, no parameter is followed.
LaneIdle == lane_innov = <<>>
ParamIdle == params = <<>>

\* No NeatPopulation has been made.
DoubleIdle ==
    /\ buffer_index = 0
    /\ buf_nodes = <<>>
    /\ buf_links = <<>>
    /\ node_lens = <<>>
    /\ link_lens = <<>>

\* next_pop is left out, no kernel is at work.
BufferIdle ==
    /\ next_nodes = <<>>
    /\ next_links = <<>>
    /\ lanes = {}
    /\ generations = 0

\* No Matchmaker has been made.
SelectIdle ==
    /\ fitness = <<>>
    /\ num_compatible = <<>>
    /\ matches = <<>>

Init ==
    /\ LaneIdle /\ ParamIdle
    /\ StorageIdle /\ CompatIdle /\ SelectIdle /\ BufferIdle /\ DoubleIdle
    /\ num_individuals \in 1 .. MaxIndividuals
    /\ nodes = [i \in Individuals |-> <<>>]
    /\ links = [i \in Individuals |-> <<>>]
    /\ innovation_counter = 0
    /\ selections = [i \in Individuals |-> <<0, 0>>]
    /\ mate_links = [x \in Individuals \X LinkSlots |-> NONE]
    /\ pc = "new"
    /\ applied = [i \in Individuals |-> 0]
    /\ mutations = 0
    /\ err = "ok"

\* Neat.random_population up to the mutation loops of random_init: the
\* lists are cleared and every genome gets its input and output nodes.
RandomPopulation ==
    /\ Running
    /\ pc \in {"new", "idle"}
    /\ \E acts \in [Individuals ->
                      [1 .. (num_inputs + num_outputs) -> ActFuncs]] :
         nodes' = [i \in Individuals |->
                     [n \in 1 .. (num_inputs + num_outputs) |->
                        Node(IF n <= num_inputs THEN INPUT ELSE OUTPUT,
                             acts[i][n])]]
    /\ links' = [i \in Individuals |-> <<>>]
    /\ applied' = [i \in Individuals |-> 0]
    /\ pc' = "init"
    /\ UNCHANGED <<num_individuals, innovation_counter, selections,
                   mate_links, mutations, err, storage_vars, compat_vars,
                   select_vars, buffer_vars,
                   double_vars,
                   lane_vars, param_vars>>

\* A loop that may make no iteration; C27 is to fail for it.
InitMutations_from_0 == rand_range(0, 9)

\* The number of iterations of random_init's mutation loop, rand_range(1,
\* 9), is drawn when the loop starts; the model lets a lane run on while
\* its count is below the largest draw and end once it has reached the
\* smallest, which yields the same runs.
InitMutations == rand_range(1, 9)

\* One iteration of random_init's mutation loop in lane i.
RandomInitStep(i) ==
    /\ Running /\ MayMutate(mutations)
    /\ pc = "init"
    /\ applied[i] + 1 \in InitMutations
    /\ \E s \in mutate_one(Genome(nodes[i], links[i], innovation_counter,
                                  err)) :
         /\ s.ic <= MaxInnov
         /\ nodes' = [nodes EXCEPT ![i] = s.nodes]
         /\ links' = [links EXCEPT ![i] = s.links]
         /\ innovation_counter' = s.ic
         /\ err' = s.err
    /\ applied' = [applied EXCEPT ![i] = @ + 1]
    /\ mutations' = Count(mutations + 1)
    /\ UNCHANGED <<num_individuals, selections, mate_links, pc,
                   storage_vars, compat_vars, select_vars,
                   buffer_vars, double_vars,
                   lane_vars, param_vars>>

\* random_init returns when every lane is through.
RandomInitEnd ==
    /\ Running
    /\ pc = "init"
    /\ \A i \in Individuals : applied[i] \in InitMutations
    /\ pc' = "idle"
    /\ applied' = [i \in Individuals |-> 0]
    /\ UNCHANGED <<num_individuals, nodes, links, innovation_counter,
                   selections, mate_links, mutations, err, storage_vars,
                   compat_vars, select_vars,
                   buffer_vars, double_vars,
                   lane_vars, param_vars>>

\* Neat.propagate(matches): the alignment table is rebuilt for the given
\* selections (the model stops where that reads outside the population),
\* next_pop is cleared and filled by the propagate kernel, and
\* the two populations swap roles.  What the swap leaves in next_pop is
\* cleared before anything reads it, so the model keeps curr_pop only.
Propagate ==
    /\ Running
    /\ pc = "idle"
    /\ \E sel \in Selections :
         IF OutOfBoundsRead(sel)
         THEN /\ selections' = sel
              /\ err' = "oob_read"
              /\ UNCHANGED <<mate_links, nodes, links, innovation_counter,
                             mutations>>
         ELSE \E order \in Orders, mls \in update_mate_links(sel) :
                /\ sel \in MatedSelections
                /\
                   \E r \in propagate_kernel(order, sel, mls,
                                [nodes |-> [i \in Individuals |-> <<>>],
                                 links |-> [i \in Individuals |-> <<>>],
                                 ic |-> innovation_counter, err |-> err,
                                 mutations |-> mutations]) :
                     /\ r.ic <= MaxInnov
                     /\ selections' = sel
                     /\ mate_links' = mls
                     /\ nodes' = r.nodes
                     /\ links' = r.links
                     /\ innovation_counter' = r.ic
                     /\ err' = r.err
                     /\ mutations' = r.mutations
    /\ UNCHANGED <<num_individuals, pc, applied, storage_vars, compat_vars,
                   select_vars, buffer_vars,
                   double_vars,
                   lane_vars, param_vars>>

Next ==
    \/ RandomPopulation
    \/ \E i \in Individuals : RandomInitStep(i)
    \/ RandomInitEnd
    \/ Propagate

Spec == Init /\ [][Next]_vars

\* ------------------------------------------- population.py: the list API

\* Node insertions and link additions a run of the list primitives makes.
MaxUid == 3
MaxStorageLinks == 3

\* The node loop of NeatPopulation.insert_node from position n2 on: the
\* node in hand takes the place of the node at n2, which is carried on.
RECURSIVE population_insert_shift(_, _, _, _)
population_insert_shift(ns, n2, node, num_nodes) ==
    IF n2 > num_nodes THEN ns
    ELSE IF n2 = num_nodes THEN Append(ns, node)
    ELSE population_insert_shift([ns EXCEPT ![n2 + 1] = node], n2 + 1,
                                 ns[n2 + 1], num_nodes)

\* insert_node leaving the links to the node at position n where they are;
\* C8 is to fail for it.
population_insert_node_after(st, n, node) ==
    LET num_nodes == Len(st.nodes)
        Moved(x) == IF x > n /\ x < Max(n, num_nodes) THEN x + 1 ELSE x
    IN  [st EXCEPT
           !.nodes = population_insert_shift(@, n, node, num_nodes),
           !.links = [l \in DOMAIN @ |->
                        [@[l] EXCEPT !.from_node = Moved(@),
                                     !.to_node = Moved(@)]]]

\* NeatPopulation.insert_node.  The loop leaves shift_end at num_nodes; a
\* write at position MAX_NETWORK_SIZE is out of bounds.
population_insert_node(st, n, node) ==
    LET num_nodes == Len(st.nodes)
        shift_begin == n
        shift_end == Max(n, num_nodes)
        Moved(x) == IF x >= shift_begin /\ x < shift_end THEN x + 1 ELSE x
    IN  [st EXCEPT
           !.nodes = population_insert_shift(@, n, node, num_nodes),
           !.links = [l \in DOMAIN @ |->
                        [@[l] EXCEPT !.from_node = Moved(@),
                                     !.to_node = Moved(@)]],
           !.err = IF num_nodes >= MAX_NETWORK_SIZE /\ @ = "ok"
                   THEN "oob" ELSE @]

\* Iterations after which a loop is taken not to end.
ScanLimit == 2 * MAX_NETWORK_SIZE + 2

\* The loop of delete_link and of delete_node that moves every entry after
\* position n one place forward, from position n2 on.
RECURSIVE shift_forward(_, _)
shift_forward(list, n2) ==
    IF n2 >= Len(list) - 1 THEN list
    ELSE shift_forward([list EXCEPT ![n2 + 1] = list[n2 + 2]], n2 + 1)

\* delete_link without the shift; C4 is to fail for it.
delete_link_last(st, l) ==
    [st EXCEPT !.links = SubSeq(@, 1, Len(@) - 1)]

\* NeatPopulation.delete_link: shift, then link_lens -= 1.
delete_link(st, l) ==
    [st EXCEPT !.links = SubSeq(shift_forward(@, l), 1, Len(@) - 1)]

\* The loop of delete_node going on to link l + 1 after a deletion; C30 is
\* to fail for it.
RECURSIVE delete_node_links_skip(_, _, _)
delete_node_links_skip(st, l, n) ==
    IF l >= Len(st.links) THEN st
    ELSE LET link == st.links[l + 1]
             s1 == [st EXCEPT
                      !.links[l + 1].from_node =
                          IF link.from_node > n THEN @ - 1 ELSE @,
                      !.links[l + 1].to_node =
                          IF link.to_node > n THEN @ - 1 ELSE @]
         IN  IF link.from_node = n \/ link.to_node = n
             THEN delete_node_links_skip(delete_link(s1, l), l + 1, n)
             ELSE delete_node_links_skip(s1, l + 1, n)

\* The while loop of delete_node from link l on.  link is the copy of the
\* link the loop body reads before it writes.
RECURSIVE delete_node_links(_, _, _)
delete_node_links(st, l, n) ==
    IF l >= Len(st.links) THEN st
    ELSE LET link == st.links[l + 1]
             s1 == [st EXCEPT
                      !.links[l + 1].from_node =
                          IF link.from_node > n THEN @ - 1 ELSE @,
                      !.links[l + 1].to_node =
                          IF link.to_node > n THEN @ - 1 ELSE @]
         IN  IF link.from_node = n \/ link.to_node = n
             THEN delete_node_links(delete_link(s1, l), l, n)
             ELSE delete_node_links(s1, l + 1, n)

\* The scan of delete_node with a delete_link that moves the links but
\* leaves link_lens as it is; C31 is to fail for it.
RECURSIVE delete_node_scan_keep(_, _, _, _)
delete_node_scan_keep(st, l, n, k) ==
    IF l >= Len(st.links) \/ k >= ScanLimit THEN k
    ELSE LET link == st.links[l + 1] IN
         IF link.from_node = n \/ link.to_node = n
         THEN delete_node_scan_keep(
                  [st EXCEPT !.links = shift_forward(@, l)], l, n, k + 1)
         ELSE delete_node_scan_keep(st, l + 1, n, k + 1)

\* The number of iterations the while loop of delete_node makes from link
\* l on, k being the number made so far; the count stops at ScanLimit.
RECURSIVE delete_node_scan(_, _, _, _)
delete_node_scan(st, l, n, k) ==
    IF l >= Len(st.links) \/ k >= ScanLimit THEN k
    ELSE LET link == st.links[l + 1] IN
         IF link.from_node = n \/ link.to_node = n
         THEN delete_node_scan(delete_link(st, l), l, n, k + 1)
         ELSE delete_node_scan(st, l + 1, n, k + 1)

\* NeatPopulation.delete_node.
delete_node(st, n) ==
    delete_node_links(
        [st EXCEPT !.nodes = SubSeq(shift_forward(@, n), 1, Len(@) - 1)],
        0, n)

\* The genome the list primitives work on, and its write-back.
Stored == Genome(nodes[0], links[0], innovation_counter, err)

Store(st) ==
    /\ nodes' = [nodes EXCEPT ![0] = st.nodes]
    /\ links' = [links EXCEPT ![0] = st.links]
    /\ innovation_counter' = st.ic
    /\ err' = st.err

\* list with x put in before position n / without the entry at position n.
InsertAt(list, n, x) ==
    SubSeq(list, 1, n) \o <<x>> \o SubSeq(list, n + 1, Len(list))
RemoveAt(list, n) ==
    SubSeq(list, 1, n) \o SubSeq(list, n + 2, Len(list))

\* A freshly constructed population of one empty genome.
InitStorage ==
    /\ LaneIdle /\ ParamIdle
    /\ StorageIdle /\ CompatIdle /\ SelectIdle /\ BufferIdle /\ DoubleIdle
    /\ num_individuals = 1
    /\ nodes = [i \in Individuals |-> <<>>]
    /\ links = [i \in Individuals |-> <<>>]
    /\ innovation_counter = 0
    /\ selections = [i \in Individuals |-> <<0, 0>>]
    /\ mate_links = [x \in Individuals \X LinkSlots |-> NONE]
    /\ pc = "new"
    /\ applied = [i \in Individuals |-> 0]
    /\ mutations = 0
    /\ err = "ok"

\* insert_node(0, 0, n, node) for a position n of the list or its end, in a
\* genome with room for the node.
InsertNode(n) ==
    /\ Running
    /\ next_uid < MaxUid
    /\ Len(nodes[0]) < MAX_NETWORK_SIZE
    /\ n \in 0 .. Len(nodes[0])
    /\ \E k \in {INPUT, HIDDEN, OUTPUT}, a \in ActFuncs :
         Store(population_insert_node(Stored, n,
                   [kind |-> k, act_func |-> a, uid |-> next_uid]))
    /\ ref_nodes' = InsertAt(ref_nodes, n, next_uid)
    /\ next_uid' = next_uid + 1
    /\ UNCHANGED <<num_individuals, ref_links, reproduction_vars,
                   compat_vars, select_vars,
                   buffer_vars, double_vars,
                   lane_vars, param_vars>>

\* delete_node(0, 0, n) for a position n of the list.
DeleteNode(n) ==
    /\ Running
    /\ n \in 0 .. (Len(nodes[0]) - 1)
    /\ Store(delete_node(Stored, n))
    /\ ref_nodes' = RemoveAt(ref_nodes, n)
    /\ ref_links' = SelectSeq(ref_links,
                        LAMBDA r : /\ r.from_uid # ref_nodes[n + 1]
                                   /\ r.to_uid # ref_nodes[n + 1])
    /\ UNCHANGED <<num_individuals, next_uid, reproduction_vars,
                   compat_vars, select_vars,
                   buffer_vars, double_vars,
                   lane_vars, param_vars>>

\* add_link(0, 0, link) between two positions of the node list, in a genome
\* with room for the link.
AddLink(from_node, to_node) ==
    /\ Running
    /\ innovation_counter < MaxStorageLinks
    /\ Len(links[0]) < MAX_NETWORK_SIZE
    /\ from_node \in 0 .. (Len(nodes[0]) - 1)
    /\ to_node \in 0 .. (Len(nodes[0]) - 1)
    /\ \E w \in RandomWeights :
         Store(add_link(Stored, Link(from_node, to_node, w)))
    /\ ref_links' = Append(ref_links,
                           [innov |-> innovation_counter,
                            from_uid |-> ref_nodes[from_node + 1],
                            to_uid |-> ref_nodes[to_node + 1]])
    /\ UNCHANGED <<num_individuals, ref_nodes, next_uid, reproduction_vars,
                   compat_vars, select_vars,
                   buffer_vars, double_vars,
                   lane_vars, param_vars>>

\* delete_link(0, 0, l) for a position l of the link list.
DeleteLink(l) ==
    /\ Running
    /\ l \in 0 .. (Len(links[0]) - 1)
    /\ Store(delete_link(Stored, l))
    /\ ref_links' = RemoveAt(ref_links, l)
    /\ UNCHANGED <<num_individuals, ref_nodes, next_uid, reproduction_vars,
                   compat_vars, select_vars,
                   buffer_vars, double_vars,
                   lane_vars, param_vars>>

NextStorage ==
    \/ \E n \in 0 .. MAX_NETWORK_SIZE : InsertNode(n)
    \/ \E n \in 0 .. MAX_NETWORK_SIZE : DeleteNode(n)
    \/ \E f, t \in 0 .. MAX_NETWORK_SIZE : AddLink(f, t)
    \/ \E l \in 0 .. MAX_NETWORK_SIZE : DeleteLink(l)

SpecStorage == InitStorage /\ [][NextStorage]_vars

\* ------------------------------------------- selection.py: compatibility

\* The genomes the analysis is run on: comp_individuals of them, each with
\* at most MaxCompLinks links whose innovation numbers are drawn from
\* 1 .. MaxCompInnov and whose weights are drawn from 0 .. MaxCompWeight.
comp_individuals == 2
MaxCompLinks == 3
MaxCompInnov == 4
MaxCompWeight == 1

Abs(x) == IF x < 0 THEN -x ELSE x

\* The inner loop of get_compatibility from mate link ml on.  weight_delta
\* is a float sum: the model keeps its addends in the order they are added.
RECURSIVE compat_mate_loop(_, _, _, _)
compat_mate_loop(p_link, m_links, ml, acc) ==
    IF ml >= Len(m_links) THEN acc
    ELSE LET m_link == m_links[ml + 1] IN
         IF p_link.innov = m_link.innov
         THEN compat_mate_loop(p_link, m_links, ml + 1,
                  [acc EXCEPT
                     !.weight_delta =
                         Append(@, Abs(p_link.weight - m_link.weight)),
                     !.num_common_weights = @ + 1])
         ELSE compat_mate_loop(p_link, m_links, ml + 1,
                  [acc EXCEPT !.num_disjoint = @ + 1])

\* The outer loop of get_compatibility from parent link pl on.
RECURSIVE compat_parent_loop(_, _, _, _)
compat_parent_loop(p_links, m_links, pl, acc) ==
    IF pl >= Len(p_links) THEN acc
    ELSE compat_parent_loop(p_links, m_links, pl + 1,
             compat_mate_loop(p_links[pl + 1], m_links, 0, acc))

\* get_compatibility dividing by the parent's number of links; C9 is to
\* fail for it.
get_compatibility_parent_len(p_links, m_links) ==
    LET acc == compat_parent_loop(p_links, m_links, 0,
                   [num_disjoint |-> 0, weight_delta |-> <<>>,
                    num_common_weights |-> 0])
    IN  [num_disjoint |-> acc.num_disjoint,
         largest_num_links |-> Len(p_links),
         weight_delta |-> acc.weight_delta,
         num_common_weights |-> acc.num_common_weights]

\* get_compatibility for the link lists of parent and mate.  The float it
\* returns is a function of the four quantities of this record, which
\* stands for it.
get_compatibility(p_links, m_links) ==
    LET acc == compat_parent_loop(p_links, m_links, 0,
                   [num_disjoint |-> 0, weight_delta |-> <<>>,
                    num_common_weights |-> 0])
    IN  [num_disjoint |-> acc.num_disjoint,
         largest_num_links |-> Max(Len(p_links), Len(m_links)),
         weight_delta |-> acc.weight_delta,
         num_common_weights |-> acc.num_common_weights]

CompIndividuals == 0 .. (comp_individuals - 1)

\* ti.math.nan, the float that is no result of get_compatibility.
NaN == [nan |-> TRUE]

\* The coefficients and the threshold of selection.py, in tenths.
DISJOINT_COEFF == 10
WEIGHT_COEFF == 4
COMP_THRESHOLD == 30

RECURSIVE Sum(_)
Sum(seq) == IF seq = <<>> THEN 0 ELSE Head(seq) + Sum(Tail(seq))

\* compatibility < COMP_THRESHOLD for an entry of comp_matrix.  No
\* comparison with NaN is true.  EPSILON keeps the two divisions of
\* get_compatibility defined when a divisor is 0, and their dividend is 0
\* then; it is far below the differences between the sums compared here.
below_threshold(c) ==
    /\ c # NaN
    /\ LET links_div == Max(c.largest_num_links, 1)
           weights_div == Max(c.num_common_weights, 1)
       IN  DISJOINT_COEFF * c.num_disjoint * weights_div
             + WEIGHT_COEFF * Sum(c.weight_delta) * links_div
           < COMP_THRESHOLD * links_div * weights_div

\* The link lists a genome may hold: links are appended under growing
\* innovation numbers and removed by shifting, so a list is in the order
\* of its innovation numbers and holds none of them twice.
CompGenomes ==
    UNION { { g \in [1 .. n -> [from_node : {0}, to_node : {1},
                               weight : 0 .. MaxCompWeight,
                               innov : 1 .. MaxCompInnov,
                               deleted : {FALSE}]] :
                \A k \in 1 .. (n - 1) : g[k].innov < g[k + 1].innov } :
            n \in 0 .. MaxCompLinks }

\* A population whose genomes are in place; comp_matrix is NaN throughout.
InitCompat ==
    /\ LaneIdle /\ ParamIdle
    /\ StorageIdle /\ BufferIdle /\ DoubleIdle
    /\ comp_links \in [CompIndividuals -> CompGenomes]
    /\ comp_matrix = [c \in CompIndividuals \X CompIndividuals |-> NaN]
    /\ fitness = [i \in CompIndividuals |-> 0]
    /\ num_compatible = [i \in CompIndividuals |-> 0]
    /\ matches = [i \in CompIndividuals |-> <<0, 0>>]
    /\ num_individuals = 1
    /\ nodes = [i \in Individuals |-> <<>>]
    /\ links = [i \in Individuals |-> <<>>]
    /\ innovation_counter = 0
    /\ selections = [i \in Individuals |-> <<0, 0>>]
    /\ mate_links = [x \in Individuals \X LinkSlots |-> NONE]
    /\ pc = "new"
    /\ applied = [i \in Individuals |-> 0]
    /\ mutations = 0
    /\ err = "ok"

\* The cell of the upper triangle that thread tri of analyze_compatibility
\* fills.
TriangleCell(tri) ==
    LET p == tri \div comp_individuals
        m == tri % comp_individuals
    IN  IF p >= m
        THEN <<comp_individuals - p - 2, comp_individuals - m - 1>>
        ELSE <<p, m>>

\* Matchmaker.analyze_compatibility: every thread computes the
\* compatibility of its cell once, writes it to both sides of the matrix
\* and counts it for both individuals if it is below the threshold.
AnalyzeCompatibility ==
    /\ comp_links # <<>>
    /\ \A c \in DOMAIN comp_matrix : comp_matrix[c] = NaN
    /\ LET triangle_size == ((comp_individuals - 1) * comp_individuals) \div 2
           Threads == 0 .. (triangle_size - 1)
           Cells == { TriangleCell(tri) : tri \in Threads }
           Value(p, m) == get_compatibility(comp_links[p], comp_links[m])
           Counted(i) ==
               { tri \in Threads :
                   LET c == TriangleCell(tri) IN
                   /\ i \in {c[1], c[2]}
                   /\ below_threshold(Value(c[1], c[2])) }
       IN  /\ comp_matrix' =
                 [c \in DOMAIN comp_matrix |->
                    IF c \in Cells THEN Value(c[1], c[2])
                    ELSE IF <<c[2], c[1]>> \in Cells THEN Value(c[2], c[1])
                    ELSE comp_matrix[c]]
           /\ num_compatible' =
                 [i \in CompIndividuals |->
                    num_compatible[i] + Cardinality(Counted(i))]
    /\ UNCHANGED <<population_vars, reproduction_vars, storage_vars,
                   comp_links, fitness, matches, buffer_vars,
                   double_vars,
                   lane_vars, param_vars>>

NextCompat == AnalyzeCompatibility

SpecCompat == InitCompat /\ [][NextCompat]_vars

\* ----------------------------------- reproduction.py: add_random_link
\* add_random_link on its own, for genomes of every network shape: the
\* genome has num_inputs INPUT nodes, up to MaxLinkHidden HIDDEN nodes and
\* up to MaxLinkOutputs OUTPUT nodes, and no link; MaxRandomLinks calls
\* are made.

MaxLinkHidden == 2
MaxLinkOutputs == 2
MaxRandomLinks == 3

\* The node list random_population builds for a genome with the given
\* number of outputs, after the given number of node insertions.
ShapedNodes(hidden, outputs) ==
    [n \in 1 .. (num_inputs + hidden + outputs) |->
       Node(IF n <= num_inputs THEN INPUT
            ELSE IF n <= num_inputs + hidden THEN HIDDEN ELSE OUTPUT, 0)]

InitLinks ==
    /\ LaneIdle /\ ParamIdle
    /\ StorageIdle /\ CompatIdle /\ SelectIdle /\ BufferIdle /\ DoubleIdle
    /\ num_individuals = 1
    /\ \E hidden \in 0 .. MaxLinkHidden, outputs \in 1 .. MaxLinkOutputs :
         nodes = [i \in Individuals |-> ShapedNodes(hidden, outputs)]
    /\ links = [i \in Individuals |-> <<>>]
    /\ innovation_counter = 0
    /\ selections = [i \in Individuals |-> <<0, 0>>]
    /\ mate_links = [x \in Individuals \X LinkSlots |-> NONE]
    /\ pc = "idle"
    /\ applied = [i \in Individuals |-> 0]
    /\ mutations = 0
    /\ err = "ok"

\* One call of add_random_link on genome 0.
AddRandomLink ==
    /\ Running
    /\ Len(links[0]) < MaxRandomLinks
    /\ \E r \in add_random_link(Genome(nodes[0], links[0],
                                       innovation_counter, err)) :
         /\ nodes' = [nodes EXCEPT ![0] = r.nodes]
         /\ links' = [links EXCEPT ![0] = r.links]
         /\ innovation_counter' = r.ic
         /\ err' = r.err
    /\ UNCHANGED <<num_individuals, reproduction_vars, storage_vars,
                   compat_vars, select_vars,
                   buffer_vars, double_vars,
                   lane_vars, param_vars>>

NextLinks == AddRandomLink

SpecLinks == InitLinks /\ [][NextLinks]_vars

\* ------------------------------------------------ selection.py: matches
\* Tournament selection in one sub-population of sel_individuals
\* individuals, after reset and one analyze_compatibility.  A fitness is a
\* finite number, drawn from 0 .. MaxFitness.

sel_individuals == 3
MaxFitness == 1
MaxAnalyses == 2
SelLinks == 4
TOURNAMENT_SIZE == 2

\* -ti.math.inf: below every fitness.
NegInf == -1

SelIndividuals == 0 .. (sel_individuals - 1)

\* The loop of unrestrited_tournament over the individuals it draws.
RECURSIVE unrestricted_rounds(_, _, _)
unrestricted_rounds(draws, p, p_fitness) ==
    IF draws = <<>> THEN <<p, p_fitness>>
    ELSE LET c == Head(draws)
             c_fitness == fitness[c]
         IN  IF c_fitness > p_fitness
             THEN unrestricted_rounds(Tail(draws), c, c_fitness)
             ELSE unrestricted_rounds(Tail(draws), p, p_fitness)

\* A tournament that keeps the individual drawn last; C16 is to fail for
\* it.
unrestrited_tournament_last(draws) ==
    <<draws[Len(draws)], fitness[draws[Len(draws)]]>>

\* unrestrited_tournament, draws being the values of rand_range(0,
\* num_individuals) in its tournament_size rounds: <<p, p_fitness>>.
unrestrited_tournament(draws) ==
    unrestricted_rounds(draws, NONE, NegInf)

\* A scan that takes the individual nth_candidate places on, compatible or
\* not; C17 is to fail for it.
scan_candidates_any(p, c, nth_candidate) ==
    IF c + nth_candidate < sel_individuals THEN c + nth_candidate ELSE NONE

\* The scan of one round of restricted_tournament from individual c on:
\* the compatible individual that nth_candidate compatible ones precede,
\* NONE if the scan ends without one.
RECURSIVE scan_candidates(_, _, _)
scan_candidates(p, c, nth_candidate) ==
    IF c >= sel_individuals THEN NONE
    ELSE IF below_threshold(comp_matrix[<<p, c>>])
         THEN IF nth_candidate = 0 THEN c
              ELSE scan_candidates(p, c + 1, nth_candidate - 1)
         ELSE scan_candidates(p, c + 1, nth_candidate)

\* The rounds of restricted_tournament that are left, for every draw of
\* nth_candidate: the set of <<m, m_fitness>>.
RECURSIVE restricted_rounds(_, _, _, _)
restricted_rounds(p, rounds, m, m_fitness) ==
    IF rounds = 0 THEN {<<m, m_fitness>>}
    ELSE UNION { LET c == scan_candidates(p, 0, nth_candidate) IN
                 IF c # NONE /\ fitness[c] > m_fitness
                 THEN restricted_rounds(p, rounds - 1, c, fitness[c])
                 ELSE restricted_rounds(p, rounds - 1, m, m_fitness) :
                 nth_candidate \in rand_range(0, num_compatible[p]) }

restricted_tournament(p, tournament_size) ==
    IF num_compatible[p] > 0
    THEN restricted_rounds(p, tournament_size, NONE, NegInf)
    ELSE {<<NONE, NegInf>>}

\* One lane of update_matches without the exchange of parent and mate; C18
\* is to fail for it.
update_match_unsorted(tournament_size, draws, attempt) ==
    LET pt == unrestrited_tournament(draws) IN
    IF attempt
    THEN { <<pt[1], mt[1]>> :
             mt \in restricted_tournament(pt[1], tournament_size) }
    ELSE {<<pt[1], NONE>>}

\* One lane of update_matches: the records <<p, m>> it may write; attempt
\* is ti.random() < crossover_rate.
update_match(tournament_size, draws, attempt) ==
    LET pt == unrestrited_tournament(draws) IN
    IF attempt
    THEN { IF mt[2] > pt[2] THEN <<mt[1], pt[1]>> ELSE <<pt[1], mt[1]>> :
             mt \in restricted_tournament(pt[1], tournament_size) }
    ELSE {<<pt[1], NONE>>}

\* The link list of a genome with n links of innovation numbers first,
\* first + 1, ...
InnovLinks(first, n) ==
    [k \in 1 .. n |->
       [from_node |-> 0, to_node |-> 1, weight |-> 0,
        innov |-> first + k - 1, deleted |-> FALSE]]

\* Results of get_compatibility: one below the threshold, one above it.
SelResults ==
    { get_compatibility(InnovLinks(1, 1), InnovLinks(1, SelLinks)),
      get_compatibility(InnovLinks(1, SelLinks),
                        InnovLinks(SelLinks + 1, SelLinks)) }

\* Matrices whose main diagonal holds a result below the threshold; C37
\* is to fail for them.
SelMatrices_diagonal ==
    { [c \in SelIndividuals \X SelIndividuals |->
         IF c[1] = c[2]
         THEN get_compatibility(InnovLinks(1, 1), InnovLinks(1, 1))
         ELSE upper[<<Min(c[1], c[2]), Max(c[1], c[2])>>]] :
      upper \in [{ c \in SelIndividuals \X SelIndividuals : c[1] < c[2] }
                   -> SelResults] }

\* The matrices analyze_compatibility leaves: NaN on the main diagonal,
\* the same result on both sides of it.
SelMatrices ==
    { [c \in SelIndividuals \X SelIndividuals |->
         IF c[1] = c[2] THEN NaN
         ELSE upper[<<Min(c[1], c[2]), Max(c[1], c[2])>>]] :
      upper \in [{ c \in SelIndividuals \X SelIndividuals : c[1] < c[2] }
                   -> SelResults] }

\* The number of entries in row p that analyze_compatibility counts.
RowCount(p) ==
    Cardinality({ c \in SelIndividuals :
                    below_threshold(comp_matrix[<<p, c>>]) })

\* A Matchmaker after reset and one analyze_compatibility of a population,
\* the caller having set the fitness.
InitSelect ==
    /\ LaneIdle /\ ParamIdle
    /\ StorageIdle /\ BufferIdle /\ DoubleIdle
    /\ comp_links = <<>>
    /\ comp_matrix \in SelMatrices
    /\ fitness \in [SelIndividuals -> 0 .. MaxFitness]
    /\ num_compatible = [p \in SelIndividuals |-> RowCount(p)]
    /\ matches = [i \in SelIndividuals |-> <<NONE, NONE>>]
    /\ num_individuals = 1
    /\ nodes = [i \in Individuals |-> <<>>]
    /\ links = [i \in Individuals |-> <<>>]
    /\ innovation_counter = 0
    /\ selections = [i \in Individuals |-> <<0, 0>>]
    /\ mate_links = [x \in Individuals \X LinkSlots |-> NONE]
    /\ pc = "idle"
    /\ applied = [i \in Individuals |-> 0]
    /\ mutations = 0
    /\ err = "ok"

\* No lane of update_matches has written its record / every lane has.
\* The host calls its kernels one after the other: no other call is made
\* while lanes of update_matches are left to run.
Unmatched == \A i \in SelIndividuals : matches[i] = <<NONE, NONE>>
Matched == \A i \in SelIndividuals : matches[i] # <<NONE, NONE>>

\* Matchmaker.reset.
Reset ==
    /\ Unmatched \/ Matched
    /\ fitness' = [i \in SelIndividuals |-> 0]
    /\ matches' = [i \in SelIndividuals |-> <<NONE, NONE>>]
    /\ num_compatible' = [i \in SelIndividuals |-> 0]
    /\ UNCHANGED <<population_vars, reproduction_vars, storage_vars,
                   compat_vars, buffer_vars, double_vars,
                   lane_vars, param_vars>>

\* Matchmaker.analyze_compatibility once more for the same population and
\* the same history slot: the matrix gets the values it has, the counts
\* grow.
AnalyzeAgain ==
    /\ Unmatched \/ Matched
    /\ \A p \in SelIndividuals :
          num_compatible[p] + RowCount(p) <= MaxAnalyses * RowCount(p)
    /\ \E p \in SelIndividuals : RowCount(p) > 0
    /\ num_compatible' =
          [p \in SelIndividuals |-> num_compatible[p] + RowCount(p)]
    /\ UNCHANGED <<population_vars, reproduction_vars, storage_vars,
                   compat_vars, fitness, matches, buffer_vars,
                   double_vars,
                   lane_vars, param_vars>>

\* Lane i of the kernel Matchmaker.update_matches, called once after a
\* reset, holds its tournaments and writes its record.  The lanes read the
\* shared fields and write nothing but their own record, so that the
\* kernel is its lanes in any order.
UpdateMatches(i) ==
    /\ matches[i] = <<NONE, NONE>>
    /\ \E tournament_size \in 1 .. TOURNAMENT_SIZE :
         \E draws \in [1 .. tournament_size -> SelIndividuals],
            attempt \in BOOLEAN :
           \E match \in update_match(tournament_size, draws, attempt) :
              matches' = [matches EXCEPT ![i] = match]
    /\ UNCHANGED <<population_vars, reproduction_vars, storage_vars,
                   compat_vars, fitness, num_compatible,
                   buffer_vars, double_vars,
                   lane_vars, param_vars>>

NextSelect ==
    \/ Reset
    \/ AnalyzeAgain
    \/ \E i \in SelIndividuals : UpdateMatches(i)

SpecSelect == InitSelect /\ [][NextSelect]_vars

\* -------------------------------------------- neat.py: two populations
\* Neat.propagate with curr_pop and next_pop both kept and the lanes of the
\* propagate kernel as steps of their own.  The current generation is
\* made of genomes as random_init leaves them, and Neat.propagate is
\* called MaxGenerations times.
MaxGenerations == 2

\* The genome after add_random_link on no link, and the genome after
\* add_random_node on that link.
LinkedGenome ==
    [nodes |-> <<Node(INPUT, 0), Node(OUTPUT, 0)>>,
     links |-> <<[Link(0, 1, 0) EXCEPT !.innov = 0]>>]
SplitGenome ==
    [nodes |-> <<Node(INPUT, 0), Node(HIDDEN, 0), Node(OUTPUT, 0)>>,
     links |-> <<[Link(0, 2, 0) EXCEPT !.innov = 0, !.deleted = TRUE],
                 [Link(0, 1, 0) EXCEPT !.innov = 1],
                 [Link(1, 2, ONE) EXCEPT !.innov = 2]>>]

InitBuffers ==
    /\ LaneIdle /\ ParamIdle
    /\ StorageIdle /\ CompatIdle /\ SelectIdle /\ DoubleIdle
    /\ num_individuals = MaxIndividuals
    /\ \E g \in [Individuals -> {LinkedGenome, SplitGenome}] :
         /\ nodes = [i \in Individuals |-> g[i].nodes]
         /\ links = [i \in Individuals |-> g[i].links]
    /\ next_nodes = [i \in Individuals |-> <<>>]
    /\ next_links = [i \in Individuals |-> <<>>]
    /\ lanes = {}
    /\ generations = 0
    /\ innovation_counter = 3
    /\ selections = [i \in Individuals |-> <<0, 0>>]
    /\ mate_links = [x \in Individuals \X LinkSlots |-> NONE]
    /\ pc = "idle"
    /\ applied = [i \in Individuals |-> 0]
    /\ mutations = 0
    /\ err = "ok"

\* Neat.propagate up to the launch of the propagate kernel: Matches.update
\* takes the selections and rebuilds the alignment table, next_pop is
\* cleared.
BeginPropagate ==
    /\ Running
    /\ pc = "idle"
    /\ generations < MaxGenerations
    /\ generations' = generations + 1
    /\ \E sel \in MatedSelections :
         /\ selections' = sel
         /\ mate_links' \in update_mate_links(sel)
    /\ next_nodes' = [i \in Individuals |-> <<>>]
    /\ next_links' = [i \in Individuals |-> <<>>]
    /\ lanes' = Individuals
    /\ pc' = "propagate"
    /\ UNCHANGED <<population_vars, applied, mutations, storage_vars,
                   compat_vars, select_vars, double_vars,
                   lane_vars, param_vars>>

\* A lane that writes its child over the genome of the same index in
\* input_pop; C19 is to fail for it.
store_child_input(pops, i, child) ==
    [pops EXCEPT !.input_pop.nodes[i] = child.nodes,
                 !.input_pop.links[i] = child.links]

\* What a lane of the propagate kernel writes: crossover, clone and
\* mutate_one append to and change the lists of individual i of output_pop.
store_child(pops, i, child) ==
    [pops EXCEPT !.output_pop.nodes[i] = child.nodes,
                 !.output_pop.links[i] = child.links]

\* Lane i of the propagate kernel.
PropagateLane(i) ==
    /\ Running
    /\ pc = "propagate"
    /\ i \in lanes
    /\ \E r \in propagate_lane(selections[i][1], selections[i][2],
                               mate_links,
                               [ic |-> innovation_counter, err |-> err,
                                mutations |-> mutations],
                               MayMutate(mutations)) :
         LET pops == store_child(
                        [input_pop |-> [nodes |-> nodes, links |-> links],
                         output_pop |-> [nodes |-> next_nodes,
                                         links |-> next_links]],
                        i, r.g)
         IN  /\ r.g.ic <= MaxInnov
             /\ nodes' = pops.input_pop.nodes
             /\ links' = pops.input_pop.links
             /\ next_nodes' = pops.output_pop.nodes
             /\ next_links' = pops.output_pop.links
             /\ innovation_counter' = r.g.ic
             /\ err' = r.g.err
             /\ mutations' = Count(r.mutations)
    /\ lanes' = lanes \ {i}
    /\ UNCHANGED <<num_individuals, selections, mate_links, pc, applied,
                   generations, storage_vars, compat_vars, select_vars,
                   double_vars,
                   lane_vars, param_vars>>

\* The end of Neat.propagate: curr_pop and next_pop change places.
Rotate ==
    /\ Running
    /\ pc = "propagate"
    /\ lanes = {}
    /\ nodes' = next_nodes
    /\ links' = next_links
    /\ next_nodes' = nodes
    /\ next_links' = links
    /\ pc' = "idle"
    /\ UNCHANGED <<num_individuals, innovation_counter, err, selections,
                   mate_links, applied, mutations, lanes, generations,
                   storage_vars, compat_vars, select_vars,
                   double_vars,
                   lane_vars, param_vars>>

NextBuffers ==
    \/ BeginPropagate
    \/ \E i \in Individuals : PropagateLane(i)
    \/ Rotate

SpecBuffers == InitBuffers /\ [][NextBuffers]_vars

\* --------------------------------------- population.py: double buffer
\* NeatPopulation.randomize on a population of one sub-population.

elite_individuals == 2
MaxImages == 2
MaxElites == 2

EliteIndividuals == 0 .. (elite_individuals - 1)
Slots == 0 .. (MAX_NETWORK_SIZE - 1)

\* The fields of the population as one record.
Population ==
    [buffer_index |-> buffer_index, nodes |-> buf_nodes,
     links |-> buf_links, node_lens |-> node_lens,
     link_lens |-> link_lens, matches |-> matches]

\* NeatPopulation.clear: the lists of the current buffer become empty;
\* their slots keep what they hold.
clear(st) ==
    LET b == st.buffer_index IN
    [st EXCEPT !.node_lens[b] = [i \in EliteIndividuals |-> 0],
               !.link_lens[b] = [i \in EliteIndividuals |-> 0]]

\* What random_init leaves in the current buffer: individual i gets a
\* genome of num_inputs + num_outputs + image[i] - 1 nodes and image[i]
\* links, whose entries are known by the number image[i].
random_init(st, image) ==
    LET b == st.buffer_index
        NodeLen(i) == num_inputs + num_outputs + image[i] - 1
    IN  [st EXCEPT
           !.nodes[b] = [i \in EliteIndividuals |->
                           [x \in Slots |-> IF x < NodeLen(i) THEN image[i]
                                            ELSE st.nodes[b][i][x]]],
           !.links[b] = [i \in EliteIndividuals |->
                           [x \in Slots |-> IF x < image[i] THEN image[i]
                                            ELSE st.links[b][i][x]]],
           !.node_lens[b] = [i \in EliteIndividuals |-> NodeLen(i)],
           !.link_lens[b] = [i \in EliteIndividuals |-> image[i]]]

\* Lanes (e, 0 .. MAX_NETWORK_SIZE - 1) of restore_elites copying the
\* slots of the lists only; C20 is to fail for it.
restore_elite_lists(st, i) ==
    LET b_curr == st.buffer_index
        b_prev == 1 - b_curr
    IN  [st EXCEPT
           !.nodes[b_curr][i] =
               [x \in Slots |-> IF x < st.node_lens[b_prev][i]
                                THEN st.nodes[b_prev][i][x]
                                ELSE st.nodes[b_curr][i][x]],
           !.links[b_curr][i] =
               [x \in Slots |-> IF x < st.link_lens[b_prev][i]
                                THEN st.links[b_prev][i][x]
                                ELSE st.links[b_curr][i][x]],
           !.matches[i] = <<i, NONE>>,
           !.node_lens[b_curr][i] = st.node_lens[b_prev][i],
           !.link_lens[b_curr][i] = st.link_lens[b_prev][i]]

\* Lanes (e, 0 .. MAX_NETWORK_SIZE - 1) of restore_elites, i being the
\* individual of elite e: every slot is copied from the previous buffer,
\* the lane of slot 0 writes the match record and the counts.
restore_elite(st, i) ==
    LET b_curr == st.buffer_index
        b_prev == 1 - b_curr
    IN  [st EXCEPT
           !.nodes[b_curr][i] = [x \in Slots |-> st.nodes[b_prev][i][x]],
           !.links[b_curr][i] = [x \in Slots |-> st.links[b_prev][i][x]],
           !.matches[i] = <<i, NONE>>,
           !.node_lens[b_curr][i] = st.node_lens[b_prev][i],
           !.link_lens[b_curr][i] = st.link_lens[b_prev][i]]

\* restore_elites: the lanes of different elites write different places,
\* those of an elite listed twice write the same values.
RECURSIVE restore_elites(_, _)
restore_elites(st, elites) ==
    IF elites = <<>> THEN st
    ELSE restore_elites(restore_elite(st, Head(elites)), Tail(elites))

\* NeatPopulation.randomize(elites); analyze_compatibility, which follows
\* restore_elites, writes no field of the double buffer.
randomize(st, image, elites) ==
    LET rotated == [st EXCEPT !.buffer_index = 1 - st.buffer_index]
    IN  restore_elites(random_init(clear(rotated), image), elites)

\* The genomes random_init may make, and the elites a caller may list (no
\* elites is the empty list).
Images == [EliteIndividuals -> 1 .. MaxImages]
Elites ==
    UNION { [1 .. n -> EliteIndividuals] : n \in 0 .. MaxElites }

\* A freshly constructed NeatPopulation: every field is 0.
InitElites ==
    /\ LaneIdle /\ ParamIdle
    /\ StorageIdle /\ CompatIdle /\ BufferIdle
    /\ buffer_index = 0
    /\ buf_nodes = [b \in 0 .. 1 |-> [i \in EliteIndividuals |->
                      [x \in Slots |-> 0]]]
    /\ buf_links = [b \in 0 .. 1 |-> [i \in EliteIndividuals |->
                      [x \in Slots |-> 0]]]
    /\ node_lens = [b \in 0 .. 1 |-> [i \in EliteIndividuals |-> 0]]
    /\ link_lens = [b \in 0 .. 1 |-> [i \in EliteIndividuals |-> 0]]
    /\ matches = [i \in EliteIndividuals |-> <<0, 0>>]
    /\ fitness = [i \in EliteIndividuals |-> 0]
    /\ num_compatible = <<>>
    /\ num_individuals = 1
    /\ nodes = [i \in Individuals |-> <<>>]
    /\ links = [i \in Individuals |-> <<>>]
    /\ innovation_counter = 0
    /\ selections = [i \in Individuals |-> <<0, 0>>]
    /\ mate_links = [x \in Individuals \X LinkSlots |-> NONE]
    /\ pc = "idle"
    /\ applied = [i \in Individuals |-> 0]
    /\ mutations = 0
    /\ err = "ok"

Randomize ==
    /\ \E image \in Images, elites \in Elites :
         LET st == randomize(Population, image, elites) IN
         /\ buffer_index' = st.buffer_index
         /\ buf_nodes' = st.nodes
         /\ buf_links' = st.links
         /\ node_lens' = st.node_lens
         /\ link_lens' = st.link_lens
         /\ matches' = st.matches
    /\ UNCHANGED <<population_vars, reproduction_vars, storage_vars,
                   compat_vars, fitness, num_compatible, buffer_vars,
                   lane_vars, param_vars>>

NextElites == Randomize

SpecElites == InitElites /\ [][NextElites]_vars

\* ------------------------------- selection.py: the threads of analysis
\* The threads of Matchmaker.analyze_compatibility on one sub-population
\* of num_individuals individuals, in any order.  comp_matrix keeps, for
\* every cell, the threads that wrote it, each standing for the value it
\* computed; lanes holds the threads that have run.

\* The largest population the threads are followed on.
MaxTriangle == 5

\* triangle_size = int(((num_individuals - 1) / 2) * num_individuals);
\* the product (num_individuals - 1) * num_individuals is even.
triangle_size(n) == ((n - 1) * n) \div 2

\* The cell for a thread whose lower-triangle position is moved to the
\* same row; C35 is to fail for it.
triangle_cell_row(n, tri) ==
    LET p == tri \div n
        m == tri % n
    IN  IF p >= m THEN <<p, n - m - 1>> ELSE <<p, m>>

\* The row p and column m thread tri fills.
triangle_cell(n, tri) ==
    LET p == tri \div n
        m == tri % n
    IN  IF p >= m THEN <<n - p - 2, n - m - 1>> ELSE <<p, m>>

TriangleThreads == 0 .. (triangle_size(num_individuals) - 1)

\* Matchmaker.__init__ for 2 .. MaxTriangle individuals: no cell of
\* comp_matrix has been written.
InitTriangle ==
    /\ LaneIdle /\ ParamIdle
    /\ StorageIdle /\ BufferIdle /\ DoubleIdle
    /\ num_individuals \in 2 .. MaxTriangle
    /\ comp_links = <<>>
    /\ comp_matrix = [c \in Individuals \X Individuals |-> <<>>]
    /\ fitness = [i \in Individuals |-> 0]
    /\ num_compatible = [i \in Individuals |-> 0]
    /\ matches = [i \in Individuals |-> <<0, 0>>]
    /\ nodes = [i \in Individuals |-> <<>>]
    /\ links = [i \in Individuals |-> <<>>]
    /\ innovation_counter = 0
    /\ selections = [i \in Individuals |-> <<0, 0>>]
    /\ mate_links = [x \in Individuals \X LinkSlots |-> NONE]
    /\ pc = "new"
    /\ applied = [i \in Individuals |-> 0]
    /\ mutations = 0
    /\ err = "ok"

\* One thread of analyze_compatibility: the value it computed goes to
\* comp_matrix[sp, p, m] and to comp_matrix[sp, m, p].  A cell outside
\* the matrix is an access out of bounds.
AnalyzeThread(tri) ==
    /\ tri \in TriangleThreads \ lanes
    /\ err = "ok"
    /\ LET cell == triangle_cell(num_individuals, tri)
           p == cell[1]
           m == cell[2]
       IN  IF {p, m} \subseteq Individuals
           THEN /\ comp_matrix' =
                      [c \in DOMAIN comp_matrix |->
                         IF c \in {<<p, m>>, <<m, p>>}
                         THEN Append(comp_matrix[c], tri)
                         ELSE comp_matrix[c]]
                /\ err' = err
           ELSE /\ comp_matrix' = comp_matrix
                /\ err' = "oob"
    /\ lanes' = lanes \cup {tri}
    /\ UNCHANGED <<num_individuals, nodes, links, innovation_counter,
                   reproduction_vars, storage_vars, comp_links,
                   select_vars, next_nodes, next_links, generations,
                   double_vars, lane_vars, param_vars>>

NextTriangle == \E tri \in 0 .. (triangle_size(MaxTriangle) - 1) :
                   AnalyzeThread(tri)

SpecTriangle == InitTriangle /\ [][NextTriangle]_vars

\* ------------------------------------- population.py: the generations
\* NeatPopulation.propagate, a step for each of its calls, and
\* NeatPopulation.randomize, on a population of one sub-population.  pc
\* names the call of propagate that was made last.

\* A propagate that goes on without the exchange of the buffers; C34 is
\* to fail for it.
flip_none(st) == st

\* self.buffer_index[None] = 1 - self.buffer_index[None]
flip(st) == [st EXCEPT !.buffer_index = 1 - @]

\* selection.tournament_select(self): every child gets a match record.
tournament_select(st, parents) ==
    [st EXCEPT !.matches = [i \in EliteIndividuals |-> <<parents[i], NONE>>]]

\* reproduction.propagate(self): the buffer that is not the current one
\* is filled with a generation drawn from the current buffer, child i
\* being a copy of its parent.
propagate_buffers(st) ==
    LET b == st.buffer_index
        parent(i) == st.matches[i][1]
    IN  [st EXCEPT
           !.nodes[1 - b] =
               [i \in EliteIndividuals |->
                  [x \in Slots |-> IF x < st.node_lens[b][parent(i)]
                                   THEN st.nodes[b][parent(i)][x]
                                   ELSE st.nodes[1 - b][i][x]]],
           !.links[1 - b] =
               [i \in EliteIndividuals |->
                  [x \in Slots |-> IF x < st.link_lens[b][parent(i)]
                                   THEN st.links[b][parent(i)][x]
                                   ELSE st.links[1 - b][i][x]]],
           !.node_lens[1 - b] =
               [i \in EliteIndividuals |-> st.node_lens[b][parent(i)]],
           !.link_lens[1 - b] =
               [i \in EliteIndividuals |-> st.link_lens[b][parent(i)]]]

\* NeatPopulation.add_link on the arrays: the link, known by the number
\* v, goes to the end of the list of individual i in the current buffer.
buffer_add_link(st, i, v) ==
    LET b == st.buffer_index IN
    [st EXCEPT !.links[b][i][st.link_lens[b][i]] = v,
               !.link_lens[b][i] = @ + 1]

\* reproduction.mutate_all(self): the individuals of mutated get one more
\* link each, if they have room for it.
RECURSIVE mutate_all(_, _)
mutate_all(st, mutated) ==
    IF mutated = {} THEN st
    ELSE LET i == CHOOSE x \in mutated : TRUE
             b == st.buffer_index
         IN  mutate_all(IF st.link_lens[b][i] < MAX_NETWORK_SIZE
                        THEN buffer_add_link(st, i, MaxImages)
                        ELSE st,
                        mutated \ {i})

\* The fields of st become the fields of the population.
StorePopulation(st) ==
    /\ buffer_index' = st.buffer_index
    /\ buf_nodes' = st.nodes
    /\ buf_links' = st.links
    /\ node_lens' = st.node_lens
    /\ link_lens' = st.link_lens
    /\ matches' = st.matches

\* NeatPopulation.randomize, called while no propagate is under way.
RandomizeCall ==
    /\ pc = "idle"
    /\ \E image \in Images, elites \in {<<>>, <<0>>} :
         StorePopulation(randomize(Population, image, elites))
    /\ UNCHANGED <<population_vars, reproduction_vars, storage_vars,
                   compat_vars, fitness, num_compatible, buffer_vars,
                   lane_vars, param_vars>>

\* NeatPopulation.propagate up to the end of selection.
PropagateSelect ==
    /\ pc = "idle"
    /\ generations < MaxGenerations
    /\ node_lens[buffer_index][0] > 0
    /\ \E parents \in [EliteIndividuals -> EliteIndividuals] :
         StorePopulation(tournament_select(Population, parents))
    /\ pc' = "selected"
    /\ generations' = generations + 1
    /\ UNCHANGED <<population_vars, selections, mate_links, applied,
                   mutations, storage_vars, compat_vars, fitness,
                   num_compatible, next_nodes, next_links, lanes,
                   lane_vars, param_vars>>

\* The offspring are written.
PropagateOffspring ==
    /\ pc = "selected"
    /\ StorePopulation(propagate_buffers(Population))
    /\ pc' = "bred"
    /\ UNCHANGED <<population_vars, selections, mate_links, applied,
                   mutations, storage_vars, compat_vars, fitness,
                   num_compatible, buffer_vars, lane_vars, param_vars>>

\* The buffers change places.
PropagateFlip ==
    /\ pc = "bred"
    /\ StorePopulation(flip(Population))
    /\ pc' = "flipped"
    /\ UNCHANGED <<population_vars, selections, mate_links, applied,
                   mutations, storage_vars, compat_vars, fitness,
                   num_compatible, buffer_vars, lane_vars, param_vars>>

\* The generation is mutated; analyze_compatibility, which follows,
\* writes no field of the double buffer.
PropagateMutate ==
    /\ pc = "flipped"
    /\ \E mutated \in SUBSET EliteIndividuals :
         StorePopulation(mutate_all(Population, mutated))
    /\ pc' = "idle"
    /\ UNCHANGED <<population_vars, selections, mate_links, applied,
                   mutations, storage_vars, compat_vars, fitness,
                   num_compatible, buffer_vars, lane_vars, param_vars>>

NextGenerations ==
    \/ RandomizeCall
    \/ PropagateSelect
    \/ PropagateOffspring
    \/ PropagateFlip
    \/ PropagateMutate

SpecGenerations == InitElites /\ [][NextGenerations]_vars

\* ------------------------------------ data_types.py: export and import
\* An entry of a node array stands for its kind, an entry of a link array
\* for its innov: the fields import_cppns reads.

\* EMPTY_CPPN: the record of a genome with no node and no link.
EMPTY_CPPN ==
    [nodes |-> [x \in Slots |-> 0 - 1], links |-> [x \in Slots |-> 0 - 1]]

\* An export of whole arrays, the slots past the counts included; C22 is
\* to fail for it.
export_cppns_whole(st) ==
    LET b == st.buffer_index IN
    [i \in EliteIndividuals |->
       [nodes |-> st.nodes[b][i], links |-> st.links[b][i]]]

\* export_cppns: a result full of EMPTY_CPPN, into which the first
\* num_nodes nodes and num_links links of the current buffer are copied.
export_cppns(st) ==
    LET b == st.buffer_index IN
    [i \in EliteIndividuals |->
       [nodes |-> [x \in Slots |-> IF x < st.node_lens[b][i]
                                   THEN st.nodes[b][i][x]
                                   ELSE EMPTY_CPPN.nodes[x]],
        links |-> [x \in Slots |-> IF x < st.link_lens[b][i]
                                   THEN st.links[b][i][x]
                                   ELSE EMPTY_CPPN.links[x]]]]

\* np.count_nonzero(arr >= 0) for one genome.
count_nonzero(arr) == Cardinality({ x \in Slots : arr[x] >= 0 })

\* import_cppns: both buffers get the arrays of the record; the counts are
\* the numbers of entries with kind >= 0 and with innov >= 0.
import_cppns(st, cppns) ==
    [st EXCEPT
       !.nodes = [b \in 0 .. 1 |->
                    [i \in EliteIndividuals |-> cppns[i].nodes]],
       !.node_lens = [b \in 0 .. 1 |->
                        [i \in EliteIndividuals |->
                           count_nonzero(cppns[i].nodes)]],
       !.links = [b \in 0 .. 1 |->
                    [i \in EliteIndividuals |-> cppns[i].links]],
       !.link_lens = [b \in 0 .. 1 |->
                        [i \in EliteIndividuals |->
                           count_nonzero(cppns[i].links)]]]

\* ------------------------------------- population.py: add_link in lanes
\* A kernel whose lanes call add_link, each for its own individual, up to
\* MaxLaneLinks times each.  A lane is between its atomic_add and the
\* store of the link while lane_innov holds the id it was given.

innov_lanes == 3
MaxLaneLinks == 2

\* An add that works on the value of the counter the lane has seen last;
\* C21 is to fail for it.
atomic_add_seen(counter, seen) ==
    [old |-> seen, new |-> seen + 1]

\* ti.atomic_add(self.innovation_counter[None], 1): the value it returns
\* and the value it leaves in the counter.  seen is the value of the
\* counter as the lane knows it from its last call.
atomic_add(counter, seen) ==
    [old |-> counter, new |-> counter + 1]

\* The value of the counter lane i has seen last.
Seen(i) ==
    IF Len(links[i]) = 0 THEN 0 ELSE links[i][Len(links[i])].innov + 1

InitInnov ==
    /\ StorageIdle /\ CompatIdle /\ SelectIdle /\ BufferIdle /\ DoubleIdle
    /\ ParamIdle
    /\ num_individuals = innov_lanes
    /\ nodes = [i \in Individuals |->
                  <<Node(INPUT, 0), Node(OUTPUT, 0)>>]
    /\ links = [i \in Individuals |-> <<>>]
    /\ lane_innov = [i \in Individuals |-> NONE]
    /\ innovation_counter = 0
    /\ selections = [i \in Individuals |-> <<0, 0>>]
    /\ mate_links = [x \in Individuals \X LinkSlots |-> NONE]
    /\ pc = "idle"
    /\ applied = [i \in Individuals |-> 0]
    /\ mutations = 0
    /\ err = "ok"

\* The first statement of add_link in lane i.
FetchInnov(i) ==
    /\ lane_innov[i] = NONE
    /\ Len(links[i]) < MaxLaneLinks
    /\ LET r == atomic_add(innovation_counter, Seen(i)) IN
       /\ lane_innov' = [lane_innov EXCEPT ![i] = r.old]
       /\ innovation_counter' = r.new
    /\ UNCHANGED <<num_individuals, nodes, links, err, reproduction_vars,
                   storage_vars, compat_vars, select_vars, buffer_vars,
                   double_vars, param_vars>>

\* The rest of add_link in lane i: the link goes to the end of the list
\* of individual i and the count of the list grows.
StoreLink(i) ==
    /\ lane_innov[i] # NONE
    /\ links' = [links EXCEPT
                   ![i] = Append(@, [Link(0, 1, 0) EXCEPT
                                       !.innov = lane_innov[i]])]
    /\ lane_innov' = [lane_innov EXCEPT ![i] = NONE]
    /\ UNCHANGED <<num_individuals, nodes, innovation_counter, err,
                   reproduction_vars, storage_vars, compat_vars,
                   select_vars, buffer_vars, double_vars, param_vars>>

NextInnov ==
    \/ \E i \in Individuals : FetchInnov(i)
    \/ \E i \in Individuals : StoreLink(i)

SpecInnov == InitInnov /\ [][NextInnov]_vars

\* ------------------------------ reproduction.py: bias, gain and weight
\* The parameters of the nodes and links of one genome under mutate_one.
\* bias and gain are whole numbers; a weight is fixed-point as in the
\* rest of the model (ONE stands for 1.0).

BIAS_RANGE == 1
GAIN_RANGE == 8

\* The range validate holds a weight to; validation.py imports it from
\* reproduction.py, which does not define it.  1.0 is the weight
\* split_link gives the second link it makes.
WEIGHT_RANGE == ONE

\* The values ti.randn() is drawn from in the model, and the calls of
\* mutate_one a run makes.
MaxRandn == 2
MaxParamMutations == 3

Randn == (0 - MaxRandn) .. MaxRandn

\* 2 * range * ti.random() - range of make_random_node.
random_in_range(range) ==
    { (2 * range * w) \div ONE - range : w \in RandomWeights }

\* The genome whose parameters are followed: an INPUT, a HIDDEN and an
\* OUTPUT node, and the two links a split link leaves.
ParamNodes == <<Node(INPUT, 0), Node(HIDDEN, 0), Node(OUTPUT, 0)>>
ParamLinks ==
    <<[Link(0, 1, 0) EXCEPT !.innov = 1],
      [Link(1, 2, ONE) EXCEPT !.innov = 2]>>

\* The branches of mutate_one that assign bias, gain or weight, with
\* mutation_kind already drawn.  last names the field assigned.
mutate_params(p, num_nodes, num_links, mutation_kind) ==
    IF mutation_kind = 3
    THEN { [p EXCEPT !.bias[n] = @ + r * BIAS_RANGE, !.last = "bias"] :
             n \in rand_range(0, num_nodes), r \in Randn }
    ELSE IF mutation_kind = 3
    THEN { [p EXCEPT !.gain[n] = r * GAIN_RANGE, !.last = "gain"] :
             n \in rand_range(0, num_nodes), r \in Randn }
    ELSE IF mutation_kind = 7 /\ num_links > 0
    THEN { [p EXCEPT !.weight[l] = w, !.last = "weight"] :
             l \in rand_range(0, num_links), w \in RandomWeights }
    ELSE {p}

\* The mutation the branch of mutate_one taken for mutation_kind performs
\* on the genome st.
mutation_applied(st, mutation_kind) ==
    LET num_links == Len(st.links)
        num_hidden == Len(st.nodes) - num_inputs - num_outputs
    IN
    IF mutation_kind = 0 /\ has_room_for(st, 1, 2) THEN "add_node"
    ELSE IF mutation_kind = 1
    THEN IF num_hidden > 0 THEN "delete_node" ELSE "none"
    ELSE IF mutation_kind = 2 THEN "change_activation"
    ELSE IF mutation_kind = 3 THEN "change_bias"
    ELSE IF mutation_kind = 3 THEN "change_gain"
    ELSE IF mutation_kind = 5 /\ has_room_for(st, 0, 1) THEN "add_link"
    ELSE IF mutation_kind = 6 /\ num_links > 0 THEN "delete_link"
    ELSE IF mutation_kind = 7
    THEN IF num_links > 0 THEN "change_weight" ELSE "add_link"
    ELSE "none"

\* The draws of mutate_one whose branch writes no list.
ParamKinds == { 3, 4, 7 }

InitParams ==
    /\ LaneIdle
    /\ StorageIdle /\ CompatIdle /\ SelectIdle /\ BufferIdle /\ DoubleIdle
    /\ num_individuals = 1
    /\ nodes = [i \in Individuals |-> ParamNodes]
    /\ links = [i \in Individuals |-> ParamLinks]
    /\ innovation_counter = 3
    /\ \E b \in [0 .. 2 -> random_in_range(BIAS_RANGE)],
          g \in [0 .. 2 -> random_in_range(GAIN_RANGE)] :
         params = [bias |-> b, gain |-> g,
                   weight |-> [l \in 0 .. 1 |-> ParamLinks[l + 1].weight],
                   last |-> "none"]
    /\ selections = [i \in Individuals |-> <<0, 0>>]
    /\ mate_links = [x \in Individuals \X LinkSlots |-> NONE]
    /\ pc = "idle"
    /\ applied = [i \in Individuals |-> 0]
    /\ mutations = 0
    /\ err = "ok"

\* mutate_one(pop, 0) on a draw of ParamKinds.
MutateParams ==
    /\ mutations < MaxParamMutations
    /\ \E mutation_kind \in rand_range(0, 8) \cap ParamKinds :
         params' \in mutate_params(params, Len(nodes[0]), Len(links[0]),
                                   mutation_kind)
    /\ mutations' = mutations + 1
    /\ UNCHANGED <<population_vars, selections, mate_links, pc, applied,
                   storage_vars, compat_vars, select_vars, buffer_vars,
                   double_vars, lane_vars>>

NextParams == MutateParams

SpecParams == InitParams /\ [][NextParams]_vars

\* ------------------------------------ population.py: lists at capacity
\* insert_node and add_link called without a test for room, until a call
\* writes outside its array.

InitCapacity ==
    /\ LaneIdle /\ ParamIdle
    /\ StorageIdle /\ CompatIdle /\ SelectIdle /\ BufferIdle /\ DoubleIdle
    /\ num_individuals = 1
    /\ nodes = [i \in Individuals |-> <<>>]
    /\ links = [i \in Individuals |-> <<>>]
    /\ innovation_counter = 0
    /\ selections = [i \in Individuals |-> <<0, 0>>]
    /\ mate_links = [x \in Individuals \X LinkSlots |-> NONE]
    /\ pc = "idle"
    /\ applied = [i \in Individuals |-> 0]
    /\ mutations = 0
    /\ err = "ok"

\* insert_node(0, 0, n, node) in front of the list or at its end.
InsertNodeAnyway(n) ==
    /\ Running
    /\ n \in {0, Len(nodes[0])}
    /\ Store(population_insert_node(Stored, n,
                 [kind |-> HIDDEN, act_func |-> 0, uid |-> Len(nodes[0])]))
    /\ UNCHANGED <<num_individuals, reproduction_vars, storage_vars,
                   compat_vars, select_vars, buffer_vars, double_vars,
                   lane_vars, param_vars>>

\* add_link(0, 0, link) from the first node of the list to its last.
AddLinkAnyway ==
    /\ Running
    /\ Len(nodes[0]) > 0
    /\ Store(add_link(Stored, Link(0, Len(nodes[0]) - 1, 0)))
    /\ UNCHANGED <<num_individuals, reproduction_vars, storage_vars,
                   compat_vars, select_vars, buffer_vars, double_vars,
                   lane_vars, param_vars>>

NextCapacity ==
    \/ \E n \in 0 .. MAX_NETWORK_SIZE : InsertNodeAnyway(n)
    \/ AddLinkAnyway

SpecCapacity == InitCapacity /\ [][NextCapacity]_vars

\* ------------------------------ population.py: lanes on the packed lists
\* The list primitives of NeatPopulation called by lanes of a kernel, one
\* lane for each individual of a sub-population, in any order.  The lists
\* of the individuals lie one after the other in self.nodes and
\* self.links: slot MAX_NETWORK_SIZE of individual i is slot 0 of
\* individual i + 1.

\* Primitives a lane calls.
MaxLaneOps == 2

\* The link lists the lanes start on hold one link or are one link short
\* of full.
LaneFills == {1, MAX_NETWORK_SIZE - 1}

\* k calls of add_link on st.
RECURSIVE fill_links(_, _)
fill_links(st, k) ==
    IF k = 0 THEN st
    ELSE fill_links(add_link(st, Link(0, Len(st.nodes) - 1, 0)), k - 1)

\* Two calls of insert_node at the end of the empty list of a genome.
two_nodes(ic) ==
    population_insert_node(
        population_insert_node(
            Genome(<<>>, <<>>, ic, "ok"), 0,
            [kind |-> INPUT, act_func |-> 0, uid |-> 0]),
        1, [kind |-> OUTPUT, act_func |-> 0, uid |-> 1])

\* A population whose genomes were built by insert_node and add_link, one
\* after the other.
InitLanes ==
    /\ LaneIdle /\ ParamIdle
    /\ StorageIdle /\ CompatIdle /\ SelectIdle /\ BufferIdle /\ DoubleIdle
    /\ num_individuals = MaxIndividuals
    /\ \E k \in [Individuals -> LaneFills] :
         LET g0 == fill_links(two_nodes(0), k[0])
             g1 == fill_links(two_nodes(g0.ic), k[1])
         IN  /\ nodes = [i \in Individuals |->
                           IF i = 0 THEN g0.nodes ELSE g1.nodes]
             /\ links = [i \in Individuals |->
                           IF i = 0 THEN g0.links ELSE g1.links]
             /\ innovation_counter = g1.ic
    /\ selections = [i \in Individuals |-> <<0, 0>>]
    /\ mate_links = [x \in Individuals \X LinkSlots |-> NONE]
    /\ pc = "lanes"
    /\ applied = [i \in Individuals |-> 0]
    /\ mutations = 0
    /\ err = "ok"

\* What one call of a primitive on individual i may leave of its genome.
LaneCalls(i) ==
    LET st == Genome(nodes[i], links[i], innovation_counter, err) IN
    { population_insert_node(st, n,
          [kind |-> HIDDEN, act_func |-> 0, uid |-> Len(nodes[i])]) :
        n \in 0 .. Len(nodes[i]) }
    \cup { delete_node(st, n) : n \in 0 .. (Len(nodes[i]) - 1) }
    \cup { add_link(st, Link(0, Len(nodes[i]) - 1, 0)) :
             x \in { y \in {0} : Len(nodes[i]) > 0 } }
    \cup { delete_link(st, l) : l \in 0 .. (Len(links[i]) - 1) }

\* The list of individual j after a call on individual i left list.  A
\* write to slot MAX_NETWORK_SIZE of individual i is a write out of
\* bounds; spill says that it went to the storage that follows, slot 0 of
\* individual i + 1.
spilled(list, old, i, j, spill) ==
    IF j = i THEN list
    ELSE IF spill /\ j = i + 1 /\ Len(list) > MAX_NETWORK_SIZE
            /\ old[j] # <<>>
         THEN [old[j] EXCEPT ![1] = list[MAX_NETWORK_SIZE + 1]]
         ELSE old[j]

\* One call of insert_node, delete_node, add_link or delete_link by the
\* lane of individual i.
LaneCall(i) ==
    /\ Running
    /\ pc = "lanes"
    /\ applied[i] < MaxLaneOps
    /\ \E r \in LaneCalls(i) :
         \E spill \in IF r.err = "oob" THEN BOOLEAN ELSE {FALSE} :
            /\ nodes' = [j \in Individuals |->
                           spilled(r.nodes, nodes, i, j, spill)]
            /\ links' = [j \in Individuals |->
                           spilled(r.links, links, i, j, spill)]
            /\ innovation_counter' = r.ic
            /\ err' = r.err
    /\ applied' = [applied EXCEPT ![i] = @ + 1]
    /\ UNCHANGED <<num_individuals, selections, mate_links, pc, mutations,
                   storage_vars, compat_vars, select_vars, buffer_vars,
                   double_vars, lane_vars, param_vars>>

NextLanes == \E i \in Individuals : LaneCall(i)

SpecLanes == InitLanes /\ [][NextLanes]_vars

\* ------------------------------------ reproduction.py: Matches.update
\* Matches.update on a population of three individuals, so that two
\* children may have the same parent and mates that are neither the
\* parent nor each other.

match_individuals == 3

\* A genome whose one link was added after those of SplitGenome.
OtherGenome ==
    [nodes |-> <<Node(INPUT, 0), Node(OUTPUT, 0)>>,
     links |-> <<[Link(0, 1, 0) EXCEPT !.innov = 3]>>]

InitMatches ==
    /\ LaneIdle /\ ParamIdle
    /\ StorageIdle /\ CompatIdle /\ SelectIdle /\ BufferIdle /\ DoubleIdle
    /\ num_individuals = match_individuals
    /\ \E g \in [Individuals ->
                   {LinkedGenome, SplitGenome, OtherGenome}] :
         /\ nodes = [i \in Individuals |-> g[i].nodes]
         /\ links = [i \in Individuals |-> g[i].links]
    /\ innovation_counter = 4
    /\ selections = [i \in Individuals |-> <<0, 0>>]
    /\ mate_links = [x \in Individuals \X LinkSlots |-> NONE]
    /\ pc = "idle"
    /\ applied = [i \in Individuals |-> 0]
    /\ mutations = 0
    /\ err = "ok"

\* Matches.update(pop, selections): the selections are taken, mate_links
\* is filled with NONE and the lanes of update_mate_links write it.
MatchesUpdate ==
    /\ Running
    /\ pc = "idle"
    /\ \E sel \in MatedSelections :
         /\ selections' = sel
         /\ mate_links' \in update_mate_links(sel)
    /\ pc' = "matched"
    /\ UNCHANGED <<population_vars, applied, mutations, storage_vars,
                   compat_vars, select_vars, buffer_vars, double_vars,
                   lane_vars, param_vars>>

NextMatches == MatchesUpdate

SpecMatches == InitMatches /\ [][NextMatches]_vars

\* ---------------------------------------------------------------- claims

LiveLinks(i) == { l \in 1 .. Len(links[i]) : ~links[i][l].deleted }

\* C1: in a non-recurrent population every live link of every genome has
\* from_node < to_node, whatever mutations, clones and crossovers it has
\* been through.
C1_Topological ==
    \A i \in Individuals : \A l \in LiveLinks(i) :
        links[i][l].from_node < links[i][l].to_node

\* C2: the first num_inputs nodes of every genome are INPUT nodes, its last
\* num_outputs nodes are OUTPUT nodes, every node in between is a HIDDEN
\* node, and no INPUT or OUTPUT node is deleted.
C2_NodeKinds ==
    \A i \in Individuals :
        LET n == Len(nodes[i]) IN
        n > 0 =>
          /\ n >= num_inputs + num_outputs
          /\ \A k \in 1 .. n :
                /\ nodes[i][k].kind =
                      (IF k <= num_inputs THEN INPUT
                       ELSE IF k <= n - num_outputs THEN HIDDEN ELSE OUTPUT)
                /\ nodes[i][k].kind # HIDDEN => ~nodes[i][k].deleted

\* C3: both ends of every live link are positions of the link's own genome
\* and its to_node is no INPUT node.
C3_LinkEndsInRange ==
    \A i \in Individuals : \A l \in LiveLinks(i) :
        /\ links[i][l].from_node \in 0 .. (Len(nodes[i]) - 1)
        /\ links[i][l].to_node \in num_inputs .. (Len(nodes[i]) - 1)

C5_InnovationUnique ==
    \A i \in Individuals : \A a, b \in LiveLinks(i) :
        a # b => links[i][a].innov # links[i][b].innov

\* A generation bred from two different parents whose links were aligned,
\* with a child of two or more live links.
C5_Witness ==
    /\ pc = "idle" /\ num_individuals = 2
    /\ \E x \in DOMAIN mate_links : mate_links[x] # NONE
    /\ \E i \in Individuals :
         /\ selections[i][1] # selections[i][2]
         /\ Cardinality(LiveLinks(i)) >= 2

\* C6: add-node mutations never take a node list beyond MAX_NETWORK_SIZE
\* nodes, and in a genome without room for one more node and two more
\* links the add-node mutation changes nothing and raises no error.
C6_CapacityCeiling ==
    \A i \in Individuals :
        LET g == Genome(nodes[i], links[i], innovation_counter, err)
            room == /\ Len(nodes[i]) + 1 <= MAX_NETWORK_SIZE
                    /\ Len(links[i]) + 2 <= MAX_NETWORK_SIZE
        IN  /\ Len(nodes[i]) <= MAX_NETWORK_SIZE
            /\ (Running /\ pc # "new") =>
                 \A r \in mutate_kind(g, 0) :
                    /\ Len(r.nodes) <= MAX_NETWORK_SIZE
                    /\ r.err # "oob"
                    /\ ~room => r = g

\* C7: the link list of a genome never holds more than MAX_NETWORK_SIZE
\* links and no link is written outside [0, MAX_NETWORK_SIZE).
C7_LinkCapacity ==
    /\ err # "oob"
    /\ \A i \in Individuals : Len(links[i]) <= MAX_NETWORK_SIZE

\* C8: in a genome with room for one more node, insert_node(n, node)
\* followed by delete_node(n) gives back the node list and the link list,
\* for every position n.
C8_RoundTrip ==
    Len(nodes[0]) < MAX_NETWORK_SIZE =>
      \A n \in 0 .. Len(nodes[0]) :
        LET node == [kind |-> HIDDEN, act_func |-> 0, uid |-> next_uid]
            r == delete_node(population_insert_node(Stored, n, node), n)
        IN  /\ r.nodes = nodes[0]
            /\ r.links = links[0]
            /\ r.err = "ok"

\* A genome of three nodes and two links in which an insertion in front
\* of the last node moves an end of a link.
C8_Witness ==
    /\ Len(ref_nodes) = 3 /\ Len(ref_links) >= 2
    /\ \E n \in 0 .. (Len(nodes[0]) - 1) :
         LET node == [kind |-> HIDDEN, act_func |-> 0, uid |-> next_uid]
             s == population_insert_node(Stored, n, node)
         IN  /\ s.links # links[0]
             /\ \E l \in 1 .. Len(links[0]) : s.links[l] = links[0][l]

\* C9: get_compatibility(A, B) = get_compatibility(B, A) for every two
\* genomes A and B of the population.
C9_Symmetric ==
    \A p, m \in DOMAIN comp_links :
        get_compatibility(comp_links[p], comp_links[m]) =
            get_compatibility(comp_links[m], comp_links[p])

\* Two analysed genomes of different length that share two links, one
\* of them under different weights, and differ in others.
C9_Witness ==
    /\ comp_links # <<>>
    /\ comp_matrix[<<0, 1>>] # NaN
    /\ comp_matrix[<<1, 0>>] = comp_matrix[<<0, 1>>]
    /\ Len(comp_links[0]) < Len(comp_links[1])
    /\ comp_matrix[<<0, 1>>].num_common_weights = 2
    /\ comp_matrix[<<0, 1>>].weight_delta = <<0, 1>>
    /\ comp_matrix[<<0, 1>>].num_disjoint > 0

Innovs(g) == { g[k].innov : k \in 1 .. Len(g) }

\* C10: the number of common links get_compatibility counts is the number
\* of innovation ids both genomes hold, and its num_disjoint is the number
\* of links whose innovation id only one of the two genomes holds.
C10_Counts ==
    \A c \in DOMAIN comp_matrix :
        LET A == Innovs(comp_links[c[1]])
            B == Innovs(comp_links[c[2]])
            r == comp_matrix[c]
        IN  r # NaN =>
              /\ r.num_common_weights = Cardinality(A \cap B)
              /\ r.num_disjoint = Cardinality((A \ B) \cup (B \ A))

\* The children crossover writes for a child whose parent is p and whose
\* mate is m, over every call of Neat.propagate, every outcome of
\* update_mate_links and every coin of crossover.

CrossoverChildren(p, m) ==
    UNION { UNION { IF should_crossover(p, m, mls, TRUE)
                    THEN { crossover(p, m, mls, flips) :
                             flips \in [Aligned(p, mls) -> BOOLEAN] }
                    ELSE {} :
                    mls \in update_mate_links(sel) } :
            sel \in { x \in Selections :
                        /\ ~OutOfBoundsRead(x)
                        /\ \E i \in Individuals : x[i] = <<p, m>> } }

LiveInnovs(i) == { links[i][l].innov : l \in LiveLinks(i) }

\* C11: every link of a child written by crossover carries an innovation
\* id of a live link of the parent; no innovation id that only the mate
\* holds appears in the child.
C11_CrossoverParentage ==
    (Running /\ pc = "idle") =>
      \A p, m \in Individuals : \A c \in CrossoverChildren(p, m) :
        \A k \in 1 .. Len(c.links) : c.links[k].innov \in LiveInnovs(p)

\* A parent with live links and a mate with a live link the parent does
\* not hold, for which crossover writes a child with links.
C11_Witness ==
    /\ Running /\ pc = "idle"
    /\ \E p, m \in Individuals :
         /\ LiveInnovs(m) \ LiveInnovs(p) # {}
         /\ \E c \in CrossoverChildren(p, m) : Len(c.links) >= 2

C13_CloneWithoutMate ==
    /\ (\E i \in DOMAIN selections : selections[i][2] = NONE) =>
           err # "oob_read"
    /\ (Running /\ pc = "idle") =>
         \A sel \in Selections : ~OutOfBoundsRead(sel) =>
           \A i \in Individuals : sel[i][2] = NONE =>
             \A mls \in update_mate_links(sel), coin \in BOOLEAN :
                ~should_crossover(sel[i][1], NONE, mls, coin)

LiveCount(list) == Cardinality({ k \in 1 .. Len(list) : ~list[k].deleted })

\* C14: add_random_node on a genome with room adds one to the number of
\* nodes and one to the number of live links, and ends, without an error,
\* with two new live links under fresh innovation ids, the first into a
\* HIDDEN node at a position n behind its from_node, the second out of n
\* with weight 1.0 to a node behind n.
C14_AddNodeEffect ==
    (Running /\ pc # "new") =>
      \A i \in Individuals :
        LET g == Genome(nodes[i], links[i], innovation_counter, err) IN
        has_room_for(g, 1, 2) =>
          \A r \in add_random_node(g) :
            LET k == Len(r.links) IN
            /\ r.err = "ok"
            /\ LiveCount(r.nodes) = LiveCount(g.nodes) + 1
            /\ LiveCount(r.links) = LiveCount(g.links) + 1
            /\ k >= 2
            /\ ~r.links[k - 1].deleted /\ ~r.links[k].deleted
            /\ r.links[k - 1].innov >= g.ic /\ r.links[k].innov >= g.ic
            /\ r.links[k - 1].to_node = r.links[k].from_node
            /\ r.links[k].weight = ONE
            /\ r.links[k - 1].from_node < r.links[k].from_node
            /\ r.links[k].from_node < r.links[k].to_node
            /\ r.links[k].from_node + 1 \in 1 .. Len(r.nodes)
            /\ r.nodes[r.links[k].from_node + 1].kind = HIDDEN

\* The number of OUTPUT nodes of genome i.
OutputCount(i) ==
    Cardinality({ n \in 1 .. Len(nodes[i]) : nodes[i][n].kind = OUTPUT })

\* C15: every link add_random_link makes in a non-recurrent genome, of any
\* number of outputs, starts at a node before the OUTPUT nodes, ends at a
\* later node that is no INPUT node, and both ends are node positions.
C15_LinkEnds ==
    \A l \in 1 .. Len(links[0]) :
        LET from_node == links[0][l].from_node
            to_node == links[0][l].to_node
        IN  /\ from_node \in 0 .. (Len(nodes[0]) - OutputCount(0) - 1)
            /\ to_node \in Max(from_node + 1, num_inputs) ..
                             (Len(nodes[0]) - 1)
            /\ from_node < to_node

\* The sequences of individuals a tournament of at most TOURNAMENT_SIZE
\* rounds may draw.
Draws ==
    UNION { [1 .. n -> SelIndividuals] : n \in 1 .. TOURNAMENT_SIZE }

C17_MateCompatible ==
    /\ \A i \in SelIndividuals :
          matches[i][2] # NONE =>
             below_threshold(comp_matrix[<<matches[i][1], matches[i][2]>>])
    /\ \A draws \in Draws, attempt \in BOOLEAN :
          LET p == unrestrited_tournament(draws)[1] IN
          (~attempt \/ RowCount(p) = 0) =>
             update_match(Len(draws), draws, attempt) = {<<p, NONE>>}

\* A mate has been recorded for a parent that is not compatible with every
\* individual, and another lane has recorded no mate.
C17_Witness ==
    \E i, j \in SelIndividuals :
        /\ matches[i][2] # NONE
        /\ \E c \in SelIndividuals \ {matches[i][1]} :
              ~below_threshold(comp_matrix[<<matches[i][1], c>>])
        /\ matches[j][1] # NONE /\ matches[j][2] = NONE

\* C18: in every record with a mate the parent is at least as fit as the
\* mate.
C18_ParentFitter ==
    \A i \in SelIndividuals :
        matches[i][2] # NONE =>
           fitness[matches[i][1]] >= fitness[matches[i][2]]

\* A record with a mate that is less fit than the parent has been written
\* for a parent that is fitter than every other individual.
C18_Witness ==
    \E i \in SelIndividuals :
        /\ matches[i][2] # NONE
        /\ \A c \in SelIndividuals \ {matches[i][1]} :
              fitness[c] < fitness[matches[i][1]]

\* C19: from the start of selection until the two populations change
\* places no step changes the current population, in whatever order the
\* lanes of the propagate kernel run.
C19_CurrentBufferKept ==
    [][pc' = "propagate" => nodes' = nodes /\ links' = links]_vars

\* Every lane has run, and some child that has been mutated is in next_pop
\* at an index where curr_pop holds another genome.
C19_Witness ==
    /\ pc = "propagate" /\ lanes = {}
    /\ mutations > 0
    /\ \E i \in Individuals :
          /\ Len(next_nodes[i]) > Len(nodes[i])
          /\ next_links[i] # links[i]

\* C20: after randomize(elites) every listed individual has, in every node
\* and link slot and in both counts of the current buffer, what it had in
\* the buffer that was current before, and its match record is itself
\* with no mate.
C20_ElitesRestored ==
    \A image \in Images, elites \in Elites :
        LET st == randomize(Population, image, elites) IN
        \A e \in 1 .. Len(elites) :
            LET i == elites[e] IN
            /\ st.buffer_index = 1 - buffer_index
            /\ st.nodes[st.buffer_index][i] = buf_nodes[buffer_index][i]
            /\ st.links[st.buffer_index][i] = buf_links[buffer_index][i]
            /\ st.node_lens[st.buffer_index][i] = node_lens[buffer_index][i]
            /\ st.link_lens[st.buffer_index][i] = link_lens[buffer_index][i]
            /\ st.matches[i] = <<i, NONE>>

\* An elite has been restored whose arrays hold entries past its counts
\* that differ from what the current buffer held there, while another
\* individual has got a new genome.
C20_Witness ==
    \E i, j \in EliteIndividuals :
        LET b == buffer_index IN
        /\ matches[i] = <<i, NONE>>
        /\ buf_nodes[b][i] = buf_nodes[1 - b][i]
        /\ buf_links[b][i] = buf_links[1 - b][i]
        /\ node_lens[b][i] = node_lens[1 - b][i]
        /\ node_lens[b][i] > 0
        /\ \E x \in Slots : x >= node_lens[b][i] /\ buf_nodes[b][i][x] # 0
        /\ buf_nodes[b][j] # buf_nodes[1 - b][j]

\* The ids add_link has handed out: those of the links stored and those
\* of the lanes that are to store theirs; the calls made so far.
HandedOut ==
    UNION { { links[i][l].innov : l \in 1 .. Len(links[i]) } :
            i \in Individuals }
      \cup { lane_innov[i] : i \in { j \in Individuals :
                                       lane_innov[j] # NONE } }
AddLinkCalls ==
    Sum([i \in 1 .. num_individuals |->
           Len(links[i - 1]) + (IF lane_innov[i - 1] # NONE THEN 1 ELSE 0)])

\* C21: in every interleaving of the lanes, every call of add_link gets an
\* id no other call got, the id is the value of the counter at the call
\* and above every id handed out before, the counter never goes down, and
\* after k calls it is k above where it started.
C21_InnovationAtomic ==
    [][/\ innovation_counter' >= innovation_counter
       /\ Cardinality(HandedOut') = AddLinkCalls'
       /\ innovation_counter' = AddLinkCalls'
       /\ \A i \in Individuals :
             (lane_innov'[i] # NONE /\ lane_innov[i] = NONE) =>
                /\ lane_innov'[i] = innovation_counter
                /\ \A x \in HandedOut : x < lane_innov'[i]]_vars

\* Two lanes are between their atomic_add and their store at once, one of
\* them for its second link.
C21_Witness ==
    \E i, j \in Individuals :
        /\ i # j
        /\ lane_innov[i] # NONE /\ lane_innov[j] # NONE
        /\ Len(links[i]) > 0

\* The population after an export and an import of the record exported.
Reimported == import_cppns(Population, export_cppns(Population))

\* C22: every slot of the exported record past the counts of a genome
\* holds the entry of EMPTY_CPPN, and importing the record gives, in both
\* buffers, the node count and the link count of the genome exported and
\* its node and link at every position below the counts.
C22_ExportImport ==
    \A i \in EliteIndividuals :
        LET b == buffer_index
            r == export_cppns(Population)[i]
        IN  /\ \A x \in Slots :
                  /\ x >= node_lens[b][i] => r.nodes[x] = EMPTY_CPPN.nodes[x]
                  /\ x >= link_lens[b][i] => r.links[x] = EMPTY_CPPN.links[x]
            /\ \A b2 \in 0 .. 1 :
                  /\ Reimported.node_lens[b2][i] = node_lens[b][i]
                  /\ Reimported.link_lens[b2][i] = link_lens[b][i]
                  /\ \A k \in Slots :
                        /\ k < node_lens[b][i] =>
                              Reimported.nodes[b2][i][k] = buf_nodes[b][i][k]
                        /\ k < link_lens[b][i] =>
                              Reimported.links[b2][i][k] = buf_links[b][i][k]

\* The current buffer holds a genome of one link whose link array keeps
\* the link of an earlier genome in the slot after it, and the other
\* buffer holds a different genome.
C22_Witness ==
    \E i \in EliteIndividuals :
        /\ link_lens[buffer_index][i] = 1
        /\ buf_links[buffer_index][i][1] = 2
        /\ link_lens[1 - buffer_index][i] = 2

\* The eight kinds of mutation mutate_one is to choose from.
MutationKinds ==
    { "add_node", "delete_node", "change_activation", "change_bias",
      "change_gain", "add_link", "delete_link", "change_weight" }

\* C23: mutate_one draws one of exactly 8 values, and on a genome with a
\* hidden node, links and room every one of the eight kinds is performed
\* on some draw; some draw changes the gain of a node.
C23_EveryKindApplied ==
    LET st == Genome(nodes[0], links[0], innovation_counter, err) IN
    /\ Cardinality(rand_range(0, 8)) = 8
    /\ \A kind \in MutationKinds :
          \E k \in rand_range(0, 8) : mutation_applied(st, k) = kind
    /\ \E k \in rand_range(0, 8) :
          \E p \in mutate_params(params, Len(nodes[0]), Len(links[0]), k) :
              /\ p.last = "gain"
              /\ p.gain # params.gain

\* C24: after any sequence of mutations of bias, gain and weight, every
\* bias is within [-BIAS_RANGE, BIAS_RANGE], every gain within
\* [-GAIN_RANGE, GAIN_RANGE] and every weight within [-WEIGHT_RANGE,
\* WEIGHT_RANGE].
C24_ParamsInRange ==
    /\ \A n \in DOMAIN params.bias :
          /\ params.bias[n] >= 0 - BIAS_RANGE
          /\ params.bias[n] <= BIAS_RANGE
          /\ params.gain[n] >= 0 - GAIN_RANGE
          /\ params.gain[n] <= GAIN_RANGE
    /\ \A l \in DOMAIN params.weight :
          /\ params.weight[l] >= 0 - WEIGHT_RANGE
          /\ params.weight[l] <= WEIGHT_RANGE

\* validate for the link at position l of the genome st: its ends are
\* positions of live nodes in activation order, its weight is in [0, 1],
\* its innovation number is below the counter and no other link has it.
valid_link(st, l) ==
    LET link == st.links[l + 1]
        num_nodes == Len(st.nodes)
    IN  /\ link.from_node >= 0 /\ link.from_node < num_nodes
        /\ link.to_node >= num_inputs /\ link.to_node < num_nodes
        /\ link.to_node > link.from_node
        /\ ~st.nodes[link.from_node + 1].deleted
        /\ ~st.nodes[link.to_node + 1].deleted
        /\ link.weight >= 0 /\ link.weight <= ONE
        /\ link.innov < st.ic
        /\ \A l2 \in 0 .. (Len(st.links) - 1) :
              l2 # l => st.links[l2 + 1].innov # link.innov

\* The genomes of the population that have their input and output nodes
\* and no link.
Linkless ==
    { i \in Individuals : /\ Len(nodes[i]) >= num_inputs + num_outputs
                          /\ Len(links[i]) = 0 }

\* C25: on a genome without links, mutate_one with the change-weight draw
\* adds exactly one link, a valid one, and advances the innovation counter
\* by 1, without an error; add_random_node adds a link and splits that
\* link: the link is first in the list and deleted, the two links that
\* follow it join its ends through one new HIDDEN node.
C25_LinklessFallback ==
    err = "ok" =>
    \A i \in Linkless :
        LET st == Genome(nodes[i], links[i], innovation_counter, err) IN
        /\ \A s \in mutate_kind(st, 7) :
              /\ s.err = "ok"
              /\ s.nodes = st.nodes
              /\ Len(s.links) = 1
              /\ ~s.links[1].deleted
              /\ s.ic = st.ic + 1
              /\ valid_link(s, 0)
        /\ \A s \in add_random_node(st) :
              /\ s.err = "ok"
              /\ Len(s.links) = 3
              /\ s.ic = st.ic + 3
              /\ s.links[1].deleted /\ s.links[1].innov = st.ic
              /\ ~s.links[2].deleted /\ ~s.links[3].deleted
              /\ s.links[2].from_node = s.links[1].from_node
              /\ s.links[3].to_node = s.links[1].to_node
              /\ s.links[2].to_node = s.links[3].from_node
              /\ s.nodes[s.links[2].to_node + 1].kind = HIDDEN

\* The genome st can take n_nodes more nodes and n_links more links.
Room(st, n_nodes, n_links) ==
    /\ Len(st.nodes) + n_nodes <= MAX_NETWORK_SIZE
    /\ Len(st.links) + n_links <= MAX_NETWORK_SIZE

\* C26: a structural mutation whose precondition is not met (add-node
\* without room for a node and two links, add-link without room for a
\* link, delete-node without a hidden node, delete-link without a link)
\* leaves nodes, links and innovation counter as they are and raises no
\* error.
C26_UnmetIsNoOp ==
    (Running /\ pc # "new") =>
    \A i \in Individuals :
        LET st == Genome(nodes[i], links[i], innovation_counter, err)
            num_hidden == Len(st.nodes) - num_inputs - num_outputs
        IN  /\ ~Room(st, 1, 2) => mutate_kind(st, 0) = {st}
            /\ ~Room(st, 0, 1) => mutate_kind(st, 5) = {st}
            /\ num_hidden <= 0 => mutate_kind(st, 1) = {st}
            /\ Len(st.links) = 0 => mutate_kind(st, 6) = {st}

\* The size of a genome that has its input and output nodes only, and the
\* factor the specification bounds the initial mutations with (no
\* definition of it is in the source).
network_size == num_inputs + num_outputs
MAX_INITIAL_MUTATIONS == 4

\* random_init has put the input and output nodes into every genome.
FreshGenomes(ns, ls) ==
    \A i \in Individuals :
        /\ Len(ns[i]) = network_size
        /\ \A n \in 1 .. network_size :
              ns[i][n].kind = (IF n <= num_inputs THEN INPUT ELSE OUTPUT)
        /\ ls[i] = <<>>

Carriers(sel, p, pl) ==
    UNION { { ml \in 0 .. (Len(links[sel[i][2]]) - 1) :
                /\ ~links[sel[i][2]][ml + 1].deleted
                /\ links[sel[i][2]][ml + 1].innov = links[p][pl + 1].innov } :
            i \in { j \in Individuals : /\ sel[j][1] = p
                                        /\ sel[j][2] # NONE } }

\* C28: the alignment table Neat.propagate builds holds, for every live
\* link of a parent whose innovation number a live link of the mate
\* carries, the position of such a link in the mate, and NONE for every
\* other link of a parent.
C28_Alignment ==
    [][(pc = "idle" /\ pc' = "idle" /\ err' # "oob_read") =>
          \A p \in Individuals :
              \A pl \in 0 .. (Len(links[p]) - 1) :
                  IF ~links[p][pl + 1].deleted
                     /\ Carriers(selections', p, pl) # {}
                  THEN mate_links'[<<p, pl>>] \in Carriers(selections', p, pl)
                  ELSE mate_links'[<<p, pl>>] = NONE]_vars

\* The size of the child lane i of the propagate kernel makes: the nodes
\* of the parent and its live links.
ChildSize(i) ==
    Len(clone(selections[i][1]).nodes) + Len(clone(selections[i][1]).links)

\* The largest number of calls of mutate_one lane i of the propagate
\* kernel can make for its child: the mutation attempts of the child,
\* every one of which passes its test against MUTATION_RATE.
MutationAttempts(i) ==
    LET sh == [ic |-> innovation_counter, err |-> err,
               mutations |-> mutations]
        Calls == { r.mutations - mutations :
                     r \in propagate_lane(selections[i][1], selections[i][2],
                                          mate_links, sh, TRUE) }
    IN  CHOOSE c \in Calls : \A d \in Calls : d <= c

\* C29: in the mutate step of a generation the mutation attempts of the
\* individuals are in proportion to their sizes (nodes plus links), so a
\* larger genome gets strictly more attempts than a smaller one.
C29_AttemptsBySize ==
    pc = "propagate" =>
    \A i, j \in Individuals :
        /\ MutationAttempts(i) * ChildSize(j)
              = MutationAttempts(j) * ChildSize(i)
        /\ ChildSize(i) > ChildSize(j) =>
              MutationAttempts(i) > MutationAttempts(j)

\* The links of list that have no end at node p, in list order, every
\* end above p moved one position down.
Survivors(list, p) ==
    LET kept == SelectSeq(list, LAMBDA x : x.from_node # p /\ x.to_node # p)
        Down(x) == IF x > p THEN x - 1 ELSE x
    IN  [l \in DOMAIN kept |->
           [kept[l] EXCEPT !.from_node = Down(@), !.to_node = Down(@)]]

\* The links of list with an end at node p.
Incident(list, p) ==
    { l \in DOMAIN list : list[l].from_node = p \/ list[l].to_node = p }

\* C30: delete_node(p) takes every link with an end at node p out of the
\* link list, however they lie in the list, so that the link count drops
\* by their number; the links left are the other links in their order,
\* with every end above p one lower and every end below p as it was.
C30_DeleteNodeLinks ==
    \A p \in 0 .. (Len(nodes[0]) - 1) :
        LET r == delete_node(Stored, p) IN
        /\ Len(r.links) = Len(links[0]) - Cardinality(Incident(links[0], p))
        /\ r.links = Survivors(links[0], p)
        /\ Len(r.nodes) = Len(nodes[0]) - 1
        /\ r.err = "ok"

\* Two links with an end at node 1 lie next to each other in the list, and
\* a link after them joins nodes 0 and 2.
C30_Witness ==
    /\ Len(nodes[0]) >= 3
    /\ Len(links[0]) = 3
    /\ Incident(links[0], 1) = {1, 2}
    /\ links[0][3].from_node = 0 /\ links[0][3].to_node = 2

\* C31: the link scan of delete_node ends on every genome and for every
\* node, after no more iterations than the genome had links when it
\* began.
C31_DeleteNodeEnds ==
    \A p \in 0 .. (Len(nodes[0]) - 1) :
        delete_node_scan(Stored, 0, p, 0) <= Len(links[0])

\* The genome has three links, the last of which has an end at node 0 and
\* follows another link with an end there.
C31_Witness ==
    /\ Len(links[0]) = 3
    /\ {2, 3} \subseteq Incident(links[0], 0)

\* The link list ls after an insertion at node position p: every end at
\* or above p is one higher, nothing else differs.
EndsRaised(ls, p) ==
    LET Up(x) == IF x >= p THEN x + 1 ELSE x IN
    [l \in DOMAIN ls |->
       [ls[l] EXCEPT !.from_node = Up(@), !.to_node = Up(@)]]

\* C32: in a genome with room, insert_node(p, node) puts node at position
\* p, leaves the nodes below p where they are and moves every node at or
\* above p one position up, so that the node count grows by 1; the links
\* keep their number, order, weights and innovation ids, and exactly the
\* ends at or above p are incremented.
C32_InsertFrame ==
    (Running /\ pc # "new") =>
    \A i \in Individuals :
        Len(nodes[i]) < MAX_NETWORK_SIZE =>
        \A p \in 0 .. Len(nodes[i]) :
            LET node == Node(HIDDEN, 0)
                r == insert_node(Genome(nodes[i], links[i],
                                        innovation_counter, err), p, node)
            IN  /\ r.nodes = InsertAt(nodes[i], p, node)
                /\ Len(r.nodes) = Len(nodes[i]) + 1
                /\ r.links = EndsRaised(links[i], p)
                /\ r.ic = innovation_counter
                /\ r.err = "ok"

\* C33: insert_node on a genome of MAX_NETWORK_SIZE nodes and add_link on
\* a genome of MAX_NETWORK_SIZE links leave the count at MAX_NETWORK_SIZE
\* and write no slot outside [0, MAX_NETWORK_SIZE).
C33_FullListsKept ==
    Running =>
    /\ Len(nodes[0]) = MAX_NETWORK_SIZE =>
          \A n \in 0 .. Len(nodes[0]) :
              LET r == population_insert_node(Stored, n,
                           [kind |-> HIDDEN, act_func |-> 0, uid |-> 0])
              IN  Len(r.nodes) = MAX_NETWORK_SIZE /\ r.err # "oob"
    /\ Len(links[0]) = MAX_NETWORK_SIZE =>
          LET r == add_link(Stored, Link(0, 0, 0))
          IN  Len(r.links) = MAX_NETWORK_SIZE /\ r.err # "oob"

\* The arrays and counts of buffer b.
Buffer(b) ==
    <<buf_nodes[b], buf_links[b], node_lens[b], link_lens[b]>>

C35_TrianglePairs ==
    /\ err = "ok"
    /\ \A p, m \in Individuals :
          /\ Len(comp_matrix[<<p, m>>]) <= 1
          /\ comp_matrix[<<p, m>>] = comp_matrix[<<m, p>>]
          /\ p = m => comp_matrix[<<p, m>>] = <<>>
          /\ (p < m /\ comp_matrix[<<p, m>>] # <<>>) =>
                triangle_cell(num_individuals, comp_matrix[<<p, m>>][1])
                  = <<p, m>>
    /\ lanes = TriangleThreads =>
          \A p, m \in Individuals :
             p # m => Len(comp_matrix[<<p, m>>]) = 1

\* All threads have run on a population of 4 or more individuals, and
\* thread 0, whose position is on the diagonal, wrote the last cell of
\* the upper triangle.
C35_Witness ==
    /\ num_individuals >= 4
    /\ lanes = TriangleThreads
    /\ comp_matrix[<<num_individuals - 2, num_individuals - 1>>] = <<0>>

\* C36: the compatibility of a genome with a genome of the same links,
\* innovation ids and weights has num_disjoint 0 and weight_delta 0.
C36_IdenticalIsZero ==
    \A c \in DOMAIN comp_matrix :
        (comp_matrix[c] # NaN /\ comp_links[c[1]] = comp_links[c[2]]) =>
            /\ comp_matrix[c].num_disjoint = 0
            /\ Sum(comp_matrix[c].weight_delta) = 0

\* C37: in every match record selection has written, a mate that is not
\* NONE is another individual than the parent, whether parent and mate
\* changed places or not.
C37_MateIsAnother ==
    \A i \in DOMAIN matches :
        matches[i][2] # NONE => matches[i][1] # matches[i][2]

\* A record with a mate whose parent is the fitter of the two, and one
\* whose parent and mate are of the same fitness.
C37_Witness ==
    /\ comp_matrix # <<>>
    /\ \E i, j \in DOMAIN matches :
          /\ matches[i][2] # NONE /\ matches[j][2] # NONE
          /\ fitness[matches[i][1]] > fitness[matches[i][2]]
          /\ fitness[matches[j][1]] = fitness[matches[j][2]]

\* C38: whenever lanes of update_matches select, the count of compatible
\* mates restricted_tournament uses for a parent p is the number of
\* individuals whose entry of comp_matrix with p is below the threshold,
\* and the scan for every nth candidate that may be drawn finds one.
C38_CountIsCurrent ==
    ~Unmatched =>
        \A p \in SelIndividuals :
            /\ num_compatible[p] = RowCount(p)
            /\ num_compatible[p] > 0 =>
                  \A nth_candidate \in rand_range(0, num_compatible[p]) :
                     scan_candidates(p, 0, nth_candidate) # NONE

\* C39: a call of insert_node, delete_node, add_link or delete_link on an
\* individual leaves the node list and the link list of every other
\* individual, and with them their counts, as they are, in whatever order
\* the lanes of the individuals make their calls.
C39_OthersKept ==
    [][\A i \in Individuals :
          applied'[i] # applied[i] =>
             \A j \in Individuals \ {i} :
                nodes'[j] = nodes[j] /\ links'[j] = links[j]]_vars

\* The entry of mate_links for link pl of parent p is NONE or the
\* position of a link of m that carries the innovation id of that link.
Designates(p, pl, m) ==
    LET ml == mate_links[<<p, pl>>] IN
    ml # NONE =>
       /\ ml < Len(links[m])
       /\ links[m][ml + 1].innov = links[p][pl + 1].innov

\* C40: for every child the propagate kernel breeds by crossover from a
\* parent p and a mate m, every entry of the alignment table that the
\* lane of the child looks up for a link of p designates a link of m
\* with the same innovation id, whatever the mates of the other children
\* of p and whatever the order of the lanes.
C40_OwnMateAligned ==
    pc = "matched" =>
       \A i \in Individuals :
          LET p == selections[i][1]
              m == selections[i][2]
          IN  \/ \A pl \in 0 .. (Len(links[p]) - 1) : Designates(p, pl, m)
              \/ ~should_crossover(p, m, mate_links, TRUE)

====
